---- MODULE Spec2Model ----
(***************************************************************************)
(* big-brain: the Thinker reconciliation loop (src/src/thinker.rs), the    *)
(* pickers (src/src/pickers.rs) and the Join/Race/Step combinators         *)
(* (src/src/sequence.rs) over an entity table with deferred despawns.      *)
(***************************************************************************)
EXTENDS Integers, Sequences, FiniteSets, TLC

\* ------------------------------------------------------------------ bounds
MaxLeaked == 1     \* action entities alive outside the Thinker's slot
MaxQueue == 1      \* length of Thinker::scheduled_actions
MaxScore == 1      \* scores are 0..MaxScore (Score(f32) in [0,1], scaled)
MaxChoices == 3    \* number of choices handed to a picker on its own
MaxPickScore == 4  \* scores and thresholds handed to a picker on its own
MaxScorers == 2    \* children of a composite scorer
MaxThinkers == 2   \* Thinker entities spawned for one agent
MaxWeight == 2     \* weights of a MeasuredScorer are in -MaxWeight..MaxWeight

\* --------------------------------------------------------------- templates
None == "None"

\* Option<(Action, ActionInner)>::None
NoAction == [action |-> 0, tmpl |-> None]

\* SequenceSpawner::mode of a template; anything else is a leaf action
Mode(t) ==
    CASE t \in {"J", "J2"} -> "Join"
      [] t \in {"R", "R2"} -> "Race"
      [] t \in {"S", "S2", "N"} -> "Step"
      [] OTHER -> "Leaf"

\* SequenceSpawner::actions of a template
Actions(t) ==
    CASE Mode(t) = "Leaf" -> <<>>
      [] t \in {"J2", "R2", "S2"} -> <<"X", "Y">>
      [] t = "N" -> <<"R2", "J2">>
      [] OTHER -> <<"X", "Y", "Z">>

\* the templates SequenceSpawner::spawn instantiates right away
FirstActions(t) ==
    CASE Mode(t) \in {"Join", "Race"} -> Actions(t)
      [] Mode(t) = "Step" -> IF Actions(t) = <<>> THEN <<>> ELSE <<Actions(t)[1]>>
      [] OTHER -> <<>>

\* templates passed to schedule_action
Schedulable == {"Q"}
\* the `otherwise` template
Default == "D"

MaxTemplateSize == 1 + Len(Actions("J"))
Ids == 1..(MaxLeaked + 2 * MaxTemplateSize)

\* ------------------------------------------------------------- ActionState
is_done(s) == s \in {"Success", "Failure"}

\* cancel_if_executing without the look at the state (ActionState::cancel)
cancel_if_executing_always(s) == "Cancelled"

cancel_if_executing(s) == IF s = "Executing" THEN "Cancelled" ELSE s

\* --------------------------------------------------------------- entities
Dead == [alive |-> FALSE, state |-> "Failure", tmpl |-> None, parent |-> 0,
         children |-> <<>>, active_step |-> 0]

Alive(w) == {i \in Ids : w[i].alive}

Roots(w) == {i \in Alive(w) : w[i].parent = 0}

MinOf(S) == CHOOSE x \in S : \A y \in S : x <= y

RemoveFrom(s, e) == SelectSeq(s, LAMBDA x : x # e)

SetState(w, e, s) == [w EXCEPT ![e].state = s]

RECURSIVE spawn(_, _, _)
RECURSIVE add_child(_, _, _, _)
\* ActionSpawn::spawn through ActionCommands::spawn: a fresh entity in
\* state Executing, and for a Sequence its first children
spawn(w, t, par) ==
    LET id == MinOf(Ids \ Alive(w))
        w0 == [w EXCEPT ![id] = [alive |-> TRUE, state |-> "Executing", tmpl |-> t,
                                 parent |-> par, children |-> <<>>, active_step |-> 0]]
    IN [w |-> add_child(w0, id, FirstActions(t), 1), id |-> id]

add_child(w, par, ts, i) ==
    IF i > Len(ts) THEN w
    ELSE LET r == spawn(w, ts[i], par)
         IN add_child([r.w EXCEPT ![par].children = Append(@, r.id)], par, ts, i + 1)

RECURSIVE Subtree(_, _)
Subtree(w, e) ==
    {e} \cup UNION {Subtree(w, w[e].children[i]) : i \in DOMAIN w[e].children}

\* DespawnRecursive { entity }
despawn_recursive(w, e) ==
    LET gone == Subtree(w, e)
    IN [i \in Ids |->
          IF i \in gone THEN Dead
          ELSE IF i = w[e].parent THEN [w[i] EXCEPT !.children = RemoveFrom(@, e)]
          ELSE w[i]]

RECURSIVE ApplyDespawns(_, _)
ApplyDespawns(w, es) ==
    IF es = {} THEN w
    ELSE LET e == MinOf(es)
         IN ApplyDespawns(IF w[e].alive THEN despawn_recursive(w, e) ELSE w, es \ {e})

\* ----------------------------------------------------------------- pickers
\* the scan of FirstToScore::pick with a strict comparison
RECURSIVE FirstFrom_strict(_, _, _, _)
FirstFrom_strict(threshold, choices, scores, i) ==
    IF i > Len(choices) THEN None
    ELSE IF scores[i] > threshold THEN choices[i]
    ELSE FirstFrom_strict(threshold, choices, scores, i + 1)

\* FirstToScore::pick: choices.iter().find(score >= threshold)
RECURSIVE FirstFrom(_, _, _, _)
FirstFrom(threshold, choices, scores, i) ==
    IF i > Len(choices) THEN None
    ELSE IF scores[i] >= threshold THEN choices[i]
    ELSE FirstFrom(threshold, choices, scores, i + 1)

\* FirstToScore::pick
FirstToScore_pick(threshold, choices, scores) == FirstFrom(threshold, choices, scores, 1)

\* the fold of Highest::pick letting a later equal score replace the maximum
RECURSIVE HighestFold_last_tie(_, _, _, _, _)
HighestFold_last_tie(choices, scores, i, max_score, acc) ==
    IF i > Len(choices) THEN acc
    ELSE IF scores[i] < max_score \/ scores[i] <= 0
         THEN HighestFold_last_tie(choices, scores, i + 1, max_score, acc)
         ELSE HighestFold_last_tie(choices, scores, i + 1, scores[i], choices[i])

\* Highest::pick: the fold over the choices (acc None, max_score 0.0)
RECURSIVE HighestFold(_, _, _, _, _)
HighestFold(choices, scores, i, max_score, acc) ==
    IF i > Len(choices) THEN acc
    ELSE IF scores[i] <= max_score \/ scores[i] <= 0
         THEN HighestFold(choices, scores, i + 1, max_score, acc)
         ELSE HighestFold(choices, scores, i + 1, scores[i], choices[i])

\* Highest::pick
Highest_pick(choices, scores) == HighestFold(choices, scores, 1, 0, None)

\* Picker::pick, dispatched on the Thinker's picker
pick(picker, choices, scores) ==
    IF picker.kind = "Highest" THEN Highest_pick(choices, scores)
    ELSE FirstToScore_pick(picker.threshold, choices, scores)

\* FirstToScore::new(threshold) and Highest
FirstToScore(threshold) == [kind |-> "FirstToScore", threshold |-> threshold]
Highest == [kind |-> "Highest", threshold |-> 0]

\* the Thinkers built: picker, `when` choices in order, `otherwise`
Configs ==
    {[picker |-> FirstToScore(MaxScore), choices |-> <<"A", "B">>, otherwise |-> Default],
     [picker |-> Highest, choices |-> <<"A", "B">>, otherwise |-> None],
     [picker |-> Highest, choices |-> <<"A", "J">>, otherwise |-> None]}

\* ----------------------------------------------------------------- state
VARIABLES
    picker,             \* Thinker::picker
    choices,            \* Thinker::choices (the action template of each Choice)
    otherwise,          \* Thinker::otherwise
    state,              \* the ActionState component of the Thinker entity
    current_action,     \* Thinker::current_action
    scheduled_actions,  \* Thinker::scheduled_actions
    world,              \* the action entities: ActionState, Sequence, Children
    agent,              \* the entity the Thinker thinks for, and what refers to it
    last                \* what the last pass did (history)

vars == <<picker, choices, otherwise, state, current_action, scheduled_actions, world,
          agent, last>>

\* an agent with a ThinkerBuilder, its Thinker spawned and linked
Attached == [alive |-> TRUE, builder |-> TRUE, has_thinker |-> TRUE,
             thinkers |-> 1, scorers |-> 0]

\* ActionInner::id_eq: identity of the shared template
id_eq(a, b) == a = b

\* the part of the Thinker that one iteration of thinker_system reads and writes
Th(st, cur, sched, w) ==
    [state |-> st, current_action |-> cur, scheduled_actions |-> sched, world |-> w]

\* should_schedule_action without the look at the running action
should_schedule_action_any(scheduled, current, w) == scheduled # <<>>

\* Thinker::should_schedule_action
should_schedule_action(scheduled, current, w) ==
    IF scheduled = <<>> THEN FALSE
    ELSE IF current # NoAction THEN is_done(w[current.action].state)
    ELSE TRUE

\* exec_picked_action replacing a running action without waiting for it
exec_picked_action_replace_now(T, next, override_current) ==
    IF T.current_action # NoAction
    THEN LET action == T.current_action.action
             current == T.current_action.tmpl
             current_state == T.world[action].state
             previous_done == is_done(current_state)
         IN IF (~id_eq(current, next) /\ override_current) \/ previous_done
            THEN LET r == spawn(T.world, next, 0)
                 IN [T EXCEPT !.world = despawn_recursive(r.w, action),
                              !.current_action = [action |-> r.id, tmpl |-> next]]
            ELSE T
    ELSE LET r == spawn(T.world, next, 0)
         IN [T EXCEPT !.world = r.w,
                      !.current_action = [action |-> r.id, tmpl |-> next]]

\* exec_picked_action without the comparison of the template identities
exec_picked_action_no_id_eq(T, next, override_current) ==
    IF T.current_action # NoAction
    THEN LET action == T.current_action.action
             current_state == T.world[action].state
             previous_done == is_done(current_state)
         IN IF override_current \/ previous_done
            THEN CASE current_state \in {"Executing", "Requested"} ->
                        [T EXCEPT !.world = SetState(@, action, "Cancelled")]
                   [] current_state \in {"Success", "Failure"} ->
                        LET r == spawn(T.world, next, 0)
                        IN [T EXCEPT !.world = despawn_recursive(r.w, action),
                                     !.current_action = [action |-> r.id, tmpl |-> next]]
                   [] OTHER -> T
            ELSE T
    ELSE LET r == spawn(T.world, next, 0)
         IN [T EXCEPT !.world = r.w,
                      !.current_action = [action |-> r.id, tmpl |-> next]]

\* exec_picked_action starting the finished action again, not the picked one
exec_picked_action_restart(T, next, override_current) ==
    IF T.current_action # NoAction
    THEN LET action == T.current_action.action
             current == T.current_action.tmpl
             current_state == T.world[action].state
             previous_done == is_done(current_state)
         IN IF (~id_eq(current, next) /\ override_current) \/ previous_done
            THEN CASE current_state \in {"Executing", "Requested"} ->
                        [T EXCEPT !.world = SetState(@, action, "Cancelled")]
                   [] current_state \in {"Success", "Failure"} ->
                        LET r == spawn(T.world, current, 0)
                        IN [T EXCEPT !.world = despawn_recursive(r.w, action),
                                     !.current_action = [action |-> r.id, tmpl |-> current]]
                   [] OTHER -> T
            ELSE T
    ELSE LET r == spawn(T.world, next, 0)
         IN [T EXCEPT !.world = r.w,
                      !.current_action = [action |-> r.id, tmpl |-> next]]

\* exec_picked_action resuming a Cancelled action that is picked again
exec_picked_action_resume(T, next, override_current) ==
    IF T.current_action # NoAction
    THEN LET action == T.current_action.action
             current == T.current_action.tmpl
             current_state == T.world[action].state
             previous_done == is_done(current_state)
         IN IF (~id_eq(current, next) /\ override_current) \/ previous_done
            THEN CASE current_state \in {"Executing", "Requested"} ->
                        [T EXCEPT !.world = SetState(@, action, "Cancelled")]
                   [] current_state \in {"Success", "Failure"} ->
                        LET r == spawn(T.world, next, 0)
                        IN [T EXCEPT !.world = despawn_recursive(r.w, action),
                                     !.current_action = [action |-> r.id, tmpl |-> next]]
                   [] OTHER -> T
            ELSE IF current_state = "Cancelled"
            THEN [T EXCEPT !.world = SetState(@, action, "Executing")]
            ELSE T
    ELSE LET r == spawn(T.world, next, 0)
         IN [T EXCEPT !.world = r.w,
                      !.current_action = [action |-> r.id, tmpl |-> next]]

\* Thinker::exec_picked_action
exec_picked_action(T, next, override_current) ==
    IF T.current_action # NoAction
    THEN LET action == T.current_action.action
             current == T.current_action.tmpl
             current_state == T.world[action].state
             previous_done == is_done(current_state)
         IN IF (~id_eq(current, next) /\ override_current) \/ previous_done
            THEN CASE current_state \in {"Executing", "Requested"} ->
                        [T EXCEPT !.world = SetState(@, action, "Cancelled")]
                   [] current_state \in {"Success", "Failure"} ->
                        LET r == spawn(T.world, next, 0)
                        IN [T EXCEPT !.world = despawn_recursive(r.w, action),
                                     !.current_action = [action |-> r.id, tmpl |-> next]]
                   [] OTHER -> T
            ELSE T
    ELSE LET r == spawn(T.world, next, 0)
         IN [T EXCEPT !.world = r.w,
                      !.current_action = [action |-> r.id, tmpl |-> next]]

\* the Executing arm with the schedule queue looked at before the picker
thinker_executing_schedule_first(T, picked, default) ==
    IF should_schedule_action(T.scheduled_actions, T.current_action, T.world)
    THEN LET action == Head(T.scheduled_actions)
             r == spawn(T.world, action, 0)
         IN [T EXCEPT !.scheduled_actions = Tail(@),
                      !.world = r.w,
                      !.current_action = [action |-> r.id, tmpl |-> action]]
    ELSE IF picked # None
    THEN exec_picked_action(T, picked, TRUE)
    ELSE IF default # None
    THEN exec_picked_action(T, default, FALSE)
    ELSE IF T.current_action # NoAction
    THEN LET action == T.current_action.action
         IN IF is_done(T.world[action].state)
            THEN [T EXCEPT !.world = despawn_recursive(@, action),
                           !.current_action = NoAction]
            ELSE T
    ELSE T

\* the Executing arm with the default action overriding the current one
thinker_executing_default_overrides(T, picked, default) ==
    IF picked # None
    THEN exec_picked_action(T, picked, TRUE)
    ELSE IF should_schedule_action(T.scheduled_actions, T.current_action, T.world)
    THEN LET action == Head(T.scheduled_actions)
             r == spawn(T.world, action, 0)
         IN [T EXCEPT !.scheduled_actions = Tail(@),
                      !.world = r.w,
                      !.current_action = [action |-> r.id, tmpl |-> action]]
    ELSE IF default # None
    THEN exec_picked_action(T, default, TRUE)
    ELSE IF T.current_action # NoAction
    THEN LET action == T.current_action.action
         IN IF is_done(T.world[action].state)
            THEN [T EXCEPT !.world = despawn_recursive(@, action),
                           !.current_action = NoAction]
            ELSE T
    ELSE T

\* the Executing arm keeping a finished action in the slot when there is
\* nothing to run
thinker_executing_keep_terminal(T, picked, default) ==
    IF picked # None
    THEN exec_picked_action(T, picked, TRUE)
    ELSE IF should_schedule_action(T.scheduled_actions, T.current_action, T.world)
    THEN LET action == Head(T.scheduled_actions)
             r == spawn(T.world, action, 0)
         IN [T EXCEPT !.scheduled_actions = Tail(@),
                      !.world = r.w,
                      !.current_action = [action |-> r.id, tmpl |-> action]]
    ELSE IF default # None
    THEN exec_picked_action(T, default, FALSE)
    ELSE T

\* thinker_system, the Executing arm
thinker_executing(T, picked, default) ==
    IF picked # None
    THEN exec_picked_action(T, picked, TRUE)
    ELSE IF should_schedule_action(T.scheduled_actions, T.current_action, T.world)
    THEN LET action == Head(T.scheduled_actions)
             r == spawn(T.world, action, 0)
         IN [T EXCEPT !.scheduled_actions = Tail(@),
                      !.world = r.w,
                      !.current_action = [action |-> r.id, tmpl |-> action]]
    ELSE IF default # None
    THEN exec_picked_action(T, default, FALSE)
    ELSE IF T.current_action # NoAction
    THEN LET action == T.current_action.action
         IN IF is_done(T.world[action].state)
            THEN [T EXCEPT !.world = despawn_recursive(@, action),
                           !.current_action = NoAction]
            ELSE T
    ELSE T

\* the Cancelled arm tearing the current action down without waiting for it
thinker_cancelled_no_wait(T) ==
    IF T.current_action # NoAction
    THEN [T EXCEPT !.world = despawn_recursive(@, T.current_action.action),
                   !.current_action = NoAction]
    ELSE [T EXCEPT !.state = "Success"]

\* thinker_system, the Cancelled arm
thinker_cancelled(T) ==
    IF T.current_action # NoAction
    THEN LET current == T.current_action.action
             s == T.world[current].state
         IN CASE s \in {"Requested", "Executing"} ->
                    [T EXCEPT !.world = SetState(@, current, "Cancelled")]
              [] s = "Cancelled" -> T
              [] OTHER ->
                    [T EXCEPT !.world = despawn_recursive(@, current),
                              !.current_action = NoAction]
    ELSE [T EXCEPT !.state = "Success"]

\* thinker_system with a Thinker that is Success or Failure still thinking
thinker_system_terminal_thinks(T, picked, default) ==
    CASE T.state = "Requested" -> [T EXCEPT !.state = "Executing"]
      [] T.state = "Cancelled" -> thinker_cancelled(T)
      [] OTHER -> thinker_executing(T, picked, default)

\* thinker_system with a Cancelled Thinker that has nothing to cancel
\* thinking again
thinker_system_cancelled_thinks(T, picked, default) ==
    CASE T.state = "Requested" -> [T EXCEPT !.state = "Executing"]
      [] T.state = "Executing" -> thinker_executing(T, picked, default)
      [] T.state = "Cancelled" ->
            IF T.current_action # NoAction /\ ~is_done(T.world[T.current_action.action].state)
            THEN thinker_cancelled(T)
            ELSE thinker_executing(T, picked, default)
      [] OTHER -> T

\* thinker_system: one iteration of the loop, for one Thinker
thinker_system(T, picked, default) ==
    CASE T.state = "Requested" -> [T EXCEPT !.state = "Executing"]
      [] T.state = "Executing" -> thinker_executing(T, picked, default)
      [] T.state = "Cancelled" -> thinker_cancelled(T)
      [] OTHER -> T

\* -------------------------------------------------------------- sequences
\* the loop of exec_join without the cancellation of the children met after a failure
RECURSIVE join_scan_no_cancel(_, _, _, _, _)
join_scan_no_cancel(w, actions, index, all_success, failed_index) ==
    IF index > Len(actions)
    THEN [w |-> w, all_success |-> all_success, failed_index |-> failed_index]
    ELSE LET child == w[actions[index]].state
             all == all_success /\ child = "Success"
         IN IF child = "Failure"
            THEN join_scan_no_cancel(w, actions, index + 1, all, index)
            ELSE join_scan_no_cancel(w, actions, index + 1, all, failed_index)

\* exec_join, Executing: the loop over the children (failed_index 0 is None)
RECURSIVE join_scan(_, _, _, _, _)
join_scan(w, actions, index, all_success, failed_index) ==
    IF index > Len(actions)
    THEN [w |-> w, all_success |-> all_success, failed_index |-> failed_index]
    ELSE LET child == w[actions[index]].state
             all == all_success /\ child = "Success"
         IN CASE child = "Failure" -> join_scan(w, actions, index + 1, all, index)
              [] child = "Executing" /\ failed_index # 0 ->
                    join_scan(SetState(w, actions[index], "Cancelled"), actions,
                              index + 1, all, failed_index)
              [] OTHER -> join_scan(w, actions, index + 1, all, failed_index)

\* the loop of exec_race without the cancellation of the children met after a success
RECURSIVE race_scan_no_cancel(_, _, _, _, _)
race_scan_no_cancel(w, actions, index, all_failure, succeed_index) ==
    IF index > Len(actions)
    THEN [w |-> w, all_failure |-> all_failure, succeed_index |-> succeed_index]
    ELSE LET child == w[actions[index]].state
             all == all_failure /\ child = "Failure"
         IN IF child = "Success"
            THEN race_scan_no_cancel(w, actions, index + 1, all, index)
            ELSE race_scan_no_cancel(w, actions, index + 1, all, succeed_index)

\* exec_race, Executing: the loop over the children (succeed_index 0 is None)
RECURSIVE race_scan(_, _, _, _, _)
race_scan(w, actions, index, all_failure, succeed_index) ==
    IF index > Len(actions)
    THEN [w |-> w, all_failure |-> all_failure, succeed_index |-> succeed_index]
    ELSE LET child == w[actions[index]].state
             all == all_failure /\ child = "Failure"
         IN CASE child = "Success" -> race_scan(w, actions, index + 1, all, index)
              [] child = "Executing" /\ succeed_index # 0 ->
                    race_scan(SetState(w, actions[index], "Cancelled"), actions,
                              index + 1, all, succeed_index)
              [] OTHER -> race_scan(w, actions, index + 1, all, succeed_index)

\* take(index) taking nothing
cancel_before_none(w, actions, index) == w

\* actions.iter().take(index): cancel_if_executing on the children before index
cancel_before(w, actions, index) ==
    [i \in Ids |->
        IF \E k \in 1..(index - 1) : k <= Len(actions) /\ actions[k] = i
        THEN [w[i] EXCEPT !.state = cancel_if_executing(@)]
        ELSE w[i]]

\* exec_join / exec_race, Cancelled: every Executing child is cancelled
cancel_children(w, actions) ==
    [i \in Ids |->
        IF (\E k \in DOMAIN actions : actions[k] = i) /\ w[i].state = "Executing"
        THEN [w[i] EXCEPT !.state = "Cancelled"]
        ELSE w[i]]

\* exec_join without the cancellation of the children before the failed one
exec_join_no_cancel_before(w, this) ==
    LET actions == w[this].children
    IN CASE w[this].state = "Executing" ->
              LET L == join_scan(w, actions, 1, TRUE, 0)
              IN IF L.all_success THEN SetState(L.w, this, "Success")
                 ELSE IF L.failed_index # 0 THEN SetState(L.w, this, "Failure")
                 ELSE L.w
         [] w[this].state = "Cancelled" ->
              LET any_err == \E k \in DOMAIN actions : w[actions[k]].state = "Failure"
                  all_done == \A k \in DOMAIN actions : is_done(w[actions[k]].state)
                  w1 == cancel_children(w, actions)
              IN IF all_done /\ any_err THEN SetState(w1, this, "Failure")
                 ELSE IF all_done /\ ~any_err THEN SetState(w1, this, "Success")
                 ELSE w1
         [] OTHER -> w

\* exec_join finishing a Cancelled Join without waiting for its children
exec_join_no_wait(w, this) ==
    LET actions == w[this].children
    IN CASE w[this].state = "Executing" ->
              LET L == join_scan(w, actions, 1, TRUE, 0)
              IN IF L.all_success THEN SetState(L.w, this, "Success")
                 ELSE IF L.failed_index # 0
                 THEN SetState(cancel_before(L.w, actions, L.failed_index), this, "Failure")
                 ELSE L.w
         [] w[this].state = "Cancelled" ->
              LET any_err == \E k \in DOMAIN actions : w[actions[k]].state = "Failure"
                  w1 == cancel_children(w, actions)
              IN IF any_err THEN SetState(w1, this, "Failure")
                 ELSE SetState(w1, this, "Success")
         [] OTHER -> w

\* exec_join
exec_join(w, this) ==
    LET actions == w[this].children
    IN CASE w[this].state = "Executing" ->
              LET L == join_scan(w, actions, 1, TRUE, 0)
              IN IF L.all_success THEN SetState(L.w, this, "Success")
                 ELSE IF L.failed_index # 0
                 THEN SetState(cancel_before(L.w, actions, L.failed_index), this, "Failure")
                 ELSE L.w
         [] w[this].state = "Cancelled" ->
              LET any_err == \E k \in DOMAIN actions : w[actions[k]].state = "Failure"
                  all_done == \A k \in DOMAIN actions : is_done(w[actions[k]].state)
                  w1 == cancel_children(w, actions)
              IN IF all_done /\ any_err THEN SetState(w1, this, "Failure")
                 ELSE IF all_done /\ ~any_err THEN SetState(w1, this, "Success")
                 ELSE w1
         [] OTHER -> w

\* exec_race without the cancellation of the children before the one that succeeded
exec_race_no_cancel_before(w, this) ==
    LET actions == w[this].children
    IN CASE w[this].state = "Executing" ->
              LET L == race_scan(w, actions, 1, TRUE, 0)
              IN IF L.all_failure THEN SetState(L.w, this, "Failure")
                 ELSE IF L.succeed_index # 0 THEN SetState(L.w, this, "Success")
                 ELSE L.w
         [] w[this].state = "Cancelled" ->
              LET any_ok == \E k \in DOMAIN actions : w[actions[k]].state = "Success"
                  all_done == \A k \in DOMAIN actions : is_done(w[actions[k]].state)
                  w1 == cancel_children(w, actions)
              IN IF all_done /\ any_ok THEN SetState(w1, this, "Success")
                 ELSE IF all_done /\ ~any_ok THEN SetState(w1, this, "Failure")
                 ELSE w1
         [] OTHER -> w

\* exec_race with the Cancelled arm of exec_join
exec_race_cancelled_as_join(w, this) ==
    LET actions == w[this].children
    IN CASE w[this].state = "Executing" ->
              LET L == race_scan(w, actions, 1, TRUE, 0)
              IN IF L.all_failure THEN SetState(L.w, this, "Failure")
                 ELSE IF L.succeed_index # 0
                 THEN SetState(cancel_before(L.w, actions, L.succeed_index), this, "Success")
                 ELSE L.w
         [] w[this].state = "Cancelled" ->
              LET any_err == \E k \in DOMAIN actions : w[actions[k]].state = "Failure"
                  all_done == \A k \in DOMAIN actions : is_done(w[actions[k]].state)
                  w1 == cancel_children(w, actions)
              IN IF all_done /\ any_err THEN SetState(w1, this, "Failure")
                 ELSE IF all_done /\ ~any_err THEN SetState(w1, this, "Success")
                 ELSE w1
         [] OTHER -> w

\* exec_race giving up on the children that stay Cancelled
exec_race_timeout(w, this) ==
    LET actions == w[this].children
    IN CASE w[this].state = "Executing" ->
              LET L == race_scan(w, actions, 1, TRUE, 0)
              IN IF L.all_failure THEN SetState(L.w, this, "Failure")
                 ELSE IF L.succeed_index # 0
                 THEN SetState(cancel_before(L.w, actions, L.succeed_index), this, "Success")
                 ELSE L.w
         [] w[this].state = "Cancelled" ->
              LET any_ok == \E k \in DOMAIN actions : w[actions[k]].state = "Success"
                  all_done == \A k \in DOMAIN actions : w[actions[k]].state # "Executing"
                  w1 == cancel_children(w, actions)
              IN IF all_done /\ any_ok THEN SetState(w1, this, "Success")
                 ELSE IF all_done /\ ~any_ok THEN SetState(w1, this, "Failure")
                 ELSE w1
         [] OTHER -> w

\* exec_race
exec_race(w, this) ==
    LET actions == w[this].children
    IN CASE w[this].state = "Executing" ->
              LET L == race_scan(w, actions, 1, TRUE, 0)
              IN IF L.all_failure THEN SetState(L.w, this, "Failure")
                 ELSE IF L.succeed_index # 0
                 THEN SetState(cancel_before(L.w, actions, L.succeed_index), this, "Success")
                 ELSE L.w
         [] w[this].state = "Cancelled" ->
              LET any_ok == \E k \in DOMAIN actions : w[actions[k]].state = "Success"
                  all_done == \A k \in DOMAIN actions : is_done(w[actions[k]].state)
                  w1 == cancel_children(w, actions)
              IN IF all_done /\ any_ok THEN SetState(w1, this, "Success")
                 ELSE IF all_done /\ ~any_ok THEN SetState(w1, this, "Failure")
                 ELSE w1
         [] OTHER -> w

\* exec_step instantiating the next step without advancing active_step
exec_step_repeat(P, this) ==
    LET w == P.w
        actions == w[this].children
    IN IF actions = <<>> THEN P
       ELSE LET active == actions[1]
                this_state == w[this].state
                active_state == w[active].state
                steps == Actions(w[this].tmpl)
            IN CASE this_state = "Executing" /\ active_state = "Success" ->
                      IF w[this].active_step = Len(steps) - 1
                      THEN [w |-> SetState(w, this, "Success"),
                            despawn |-> P.despawn \cup {active}]
                      ELSE LET w1 == w
                               r == spawn(w1, steps[w1[this].active_step + 1], this)
                           IN [w |-> [r.w EXCEPT ![this].children = Append(@, r.id)],
                               despawn |-> P.despawn \cup {active}]
                 [] this_state = "Executing" /\ active_state = "Failure" ->
                      [w |-> SetState(w, this, "Failure"),
                       despawn |-> P.despawn \cup {active}]
                 [] this_state = "Cancelled" /\ active_state = "Executing" ->
                      [P EXCEPT !.w = SetState(w, active, "Cancelled")]
                 [] this_state = "Cancelled" /\ active_state = "Success" ->
                      [P EXCEPT !.w = SetState(w, this, "Success")]
                 [] this_state = "Cancelled" /\ active_state = "Failure" ->
                      [P EXCEPT !.w = SetState(w, this, "Failure")]
                 [] OTHER -> P

\* exec_step going on to the next step after a failed one
exec_step_failure_continues(P, this) ==
    LET w == P.w
        actions == w[this].children
    IN IF actions = <<>> THEN P
       ELSE LET active == actions[1]
                this_state == w[this].state
                active_state == w[active].state
                steps == Actions(w[this].tmpl)
            IN CASE this_state = "Executing" /\ active_state = "Success" ->
                      IF w[this].active_step = Len(steps) - 1
                      THEN [w |-> SetState(w, this, "Success"),
                            despawn |-> P.despawn \cup {active}]
                      ELSE LET w1 == [w EXCEPT ![this].active_step = @ + 1]
                               r == spawn(w1, steps[w1[this].active_step + 1], this)
                           IN [w |-> [r.w EXCEPT ![this].children = Append(@, r.id)],
                               despawn |-> P.despawn \cup {active}]
                 [] this_state = "Executing" /\ active_state = "Failure" ->
                      LET w1 == [w EXCEPT ![this].active_step =
                                              IF @ < Len(steps) - 1 THEN @ + 1 ELSE @]
                          r == spawn(w1, steps[w1[this].active_step + 1], this)
                      IN [w |-> [r.w EXCEPT ![this].children = Append(@, r.id)],
                          despawn |-> P.despawn \cup {active}]
                 [] this_state = "Cancelled" /\ active_state = "Executing" ->
                      [P EXCEPT !.w = SetState(w, active, "Cancelled")]
                 [] this_state = "Cancelled" /\ active_state = "Success" ->
                      [P EXCEPT !.w = SetState(w, this, "Success")]
                 [] this_state = "Cancelled" /\ active_state = "Failure" ->
                      [P EXCEPT !.w = SetState(w, this, "Failure")]
                 [] OTHER -> P

\* exec_step leaving the finished step attached when it instantiates the next one
exec_step_no_despawn(P, this) ==
    LET w == P.w
        actions == w[this].children
    IN IF actions = <<>> THEN P
       ELSE LET active == actions[1]
                this_state == w[this].state
                active_state == w[active].state
                steps == Actions(w[this].tmpl)
            IN CASE this_state = "Executing" /\ active_state = "Success" ->
                      IF w[this].active_step = Len(steps) - 1
                      THEN [w |-> SetState(w, this, "Success"),
                            despawn |-> P.despawn \cup {active}]
                      ELSE LET w1 == [w EXCEPT ![this].active_step = @ + 1]
                               r == spawn(w1, steps[w1[this].active_step + 1], this)
                           IN [w |-> [r.w EXCEPT ![this].children = Append(@, r.id)],
                               despawn |-> P.despawn]
                 [] this_state = "Executing" /\ active_state = "Failure" ->
                      [w |-> SetState(w, this, "Failure"),
                       despawn |-> P.despawn \cup {active}]
                 [] this_state = "Cancelled" /\ active_state = "Executing" ->
                      [P EXCEPT !.w = SetState(w, active, "Cancelled")]
                 [] this_state = "Cancelled" /\ active_state = "Success" ->
                      [P EXCEPT !.w = SetState(w, this, "Success")]
                 [] this_state = "Cancelled" /\ active_state = "Failure" ->
                      [P EXCEPT !.w = SetState(w, this, "Failure")]
                 [] OTHER -> P

\* exec_step finishing a Cancelled Step without waiting for the step it cancels
exec_step_cancelled_no_wait(P, this) ==
    LET w == P.w
        actions == w[this].children
    IN IF actions = <<>> THEN P
       ELSE LET active == actions[1]
                this_state == w[this].state
                active_state == w[active].state
                steps == Actions(w[this].tmpl)
            IN CASE this_state = "Executing" /\ active_state = "Success" ->
                      IF w[this].active_step = Len(steps) - 1
                      THEN [w |-> SetState(w, this, "Success"),
                            despawn |-> P.despawn \cup {active}]
                      ELSE LET w1 == [w EXCEPT ![this].active_step = @ + 1]
                               r == spawn(w1, steps[w1[this].active_step + 1], this)
                           IN [w |-> [r.w EXCEPT ![this].children = Append(@, r.id)],
                               despawn |-> P.despawn \cup {active}]
                 [] this_state = "Executing" /\ active_state = "Failure" ->
                      [w |-> SetState(w, this, "Failure"),
                       despawn |-> P.despawn \cup {active}]
                 [] this_state = "Cancelled" /\ active_state = "Executing" ->
                      [P EXCEPT !.w = SetState(SetState(w, active, "Cancelled"), this, "Failure")]
                 [] this_state = "Cancelled" /\ active_state = "Success" ->
                      [P EXCEPT !.w = SetState(w, this, "Success")]
                 [] this_state = "Cancelled" /\ active_state = "Failure" ->
                      [P EXCEPT !.w = SetState(w, this, "Failure")]
                 [] OTHER -> P

\* exec_step advancing active_step on the last step too
exec_step_overrun(P, this) ==
    LET w == P.w
        actions == w[this].children
    IN IF actions = <<>> THEN P
       ELSE LET active == actions[1]
                this_state == w[this].state
                active_state == w[active].state
                steps == Actions(w[this].tmpl)
            IN CASE this_state = "Executing" /\ active_state = "Success" ->
                      IF w[this].active_step = Len(steps) - 1
                      THEN [w |-> [SetState(w, this, "Success") EXCEPT
                                      ![this].active_step = @ + 1],
                            despawn |-> P.despawn \cup {active}]
                      ELSE LET w1 == [w EXCEPT ![this].active_step = @ + 1]
                               r == spawn(w1, steps[w1[this].active_step + 1], this)
                           IN [w |-> [r.w EXCEPT ![this].children = Append(@, r.id)],
                               despawn |-> P.despawn \cup {active}]
                 [] this_state = "Executing" /\ active_state = "Failure" ->
                      [w |-> SetState(w, this, "Failure"),
                       despawn |-> P.despawn \cup {active}]
                 [] this_state = "Cancelled" /\ active_state = "Executing" ->
                      [P EXCEPT !.w = SetState(w, active, "Cancelled")]
                 [] this_state = "Cancelled" /\ active_state = "Success" ->
                      [P EXCEPT !.w = SetState(w, this, "Success")]
                 [] this_state = "Cancelled" /\ active_state = "Failure" ->
                      [P EXCEPT !.w = SetState(w, this, "Failure")]
                 [] OTHER -> P

\* exec_step going on to the next step while Cancelled
exec_step_cancelled_advances(P, this) ==
    LET w == P.w
        actions == w[this].children
    IN IF actions = <<>> THEN P
       ELSE LET active == actions[1]
                this_state == w[this].state
                active_state == w[active].state
                steps == Actions(w[this].tmpl)
            IN CASE this_state \in {"Executing", "Cancelled"} /\ active_state = "Success" ->
                      IF w[this].active_step = Len(steps) - 1
                      THEN [w |-> SetState(w, this, "Success"),
                            despawn |-> P.despawn \cup {active}]
                      ELSE LET w1 == [w EXCEPT ![this].active_step = @ + 1]
                               r == spawn(w1, steps[w1[this].active_step + 1], this)
                           IN [w |-> [r.w EXCEPT ![this].children = Append(@, r.id)],
                               despawn |-> P.despawn \cup {active}]
                 [] this_state = "Executing" /\ active_state = "Failure" ->
                      [w |-> SetState(w, this, "Failure"),
                       despawn |-> P.despawn \cup {active}]
                 [] this_state = "Cancelled" /\ active_state = "Executing" ->
                      [P EXCEPT !.w = SetState(w, active, "Cancelled")]
                 [] this_state = "Cancelled" /\ active_state = "Failure" ->
                      [P EXCEPT !.w = SetState(w, this, "Failure")]
                 [] OTHER -> P

\* exec_step; P.w is the world, P.despawn the DespawnRecursive commands queued
exec_step(P, this) ==
    LET w == P.w
        actions == w[this].children
    IN IF actions = <<>> THEN P
       ELSE LET active == actions[1]
                this_state == w[this].state
                active_state == w[active].state
                steps == Actions(w[this].tmpl)
            IN CASE this_state = "Executing" /\ active_state = "Success" ->
                      IF w[this].active_step = Len(steps) - 1
                      THEN [w |-> SetState(w, this, "Success"),
                            despawn |-> P.despawn \cup {active}]
                      ELSE LET w1 == [w EXCEPT ![this].active_step = @ + 1]
                               r == spawn(w1, steps[w1[this].active_step + 1], this)
                           IN [w |-> [r.w EXCEPT ![this].children = Append(@, r.id)],
                               despawn |-> P.despawn \cup {active}]
                 [] this_state = "Executing" /\ active_state = "Failure" ->
                      [w |-> SetState(w, this, "Failure"),
                       despawn |-> P.despawn \cup {active}]
                 [] this_state = "Cancelled" /\ active_state = "Executing" ->
                      [P EXCEPT !.w = SetState(w, active, "Cancelled")]
                 [] this_state = "Cancelled" /\ active_state = "Success" ->
                      [P EXCEPT !.w = SetState(w, this, "Success")]
                 [] this_state = "Cancelled" /\ active_state = "Failure" ->
                      [P EXCEPT !.w = SetState(w, this, "Failure")]
                 [] OTHER -> P

\* the entities matched by sequence_system's query (Sequence with Children)
Sequences(w) ==
    {e \in Alive(w) : Mode(w[e].tmpl) # "Leaf" /\ w[e].children # <<>>}

\* sequence_system: the loop over the query, then the queued commands
RECURSIVE sequence_loop(_, _)
sequence_loop(P, todo) ==
    IF todo = {} THEN P
    ELSE LET parent == MinOf(todo)
             mode == Mode(P.w[parent].tmpl)
             Q == CASE mode = "Join" -> [P EXCEPT !.w = exec_join(@, parent)]
                    [] mode = "Race" -> [P EXCEPT !.w = exec_race(@, parent)]
                    [] OTHER -> exec_step(P, parent)
         IN sequence_loop(Q, todo \ {parent})

sequence_system(w) ==
    LET P == sequence_loop([w |-> w, despawn |-> {}], Sequences(w))
    IN ApplyDespawns(P.w, P.despawn)

\* states.get_mut(child).unwrap() of a pass over a composite: the states
\* query is Without<Sequence>, the lookup of a child that has a Sequence
\* fails.  A Step looks its first child up in every state, a Join or a Race
\* all its children while Executing or Cancelled.
lookup_fails(w, parent) ==
    LET children == w[parent].children
        HasSequence(c) == Mode(w[c].tmpl) # "Leaf"
    IN IF Mode(w[parent].tmpl) = "Step"
       THEN HasSequence(children[1])
       ELSE /\ w[parent].state \in {"Executing", "Cancelled"}
            /\ \E k \in DOMAIN children : HasSequence(children[k])

\* sequence_system panics on some entity of its query
sequence_panics(w) == \E parent \in Sequences(w) : lookup_fails(w, parent)

\* ---------------------------------------------------------------- actions
Leaves(w) == {e \in Alive(w) : Mode(w[e].tmpl) = "Leaf"}

StateOf(w, cur) == IF cur = NoAction THEN None ELSE w[cur.action].state

\* the entities alive that are not in the subtree of the Thinker's slot
Leaked(w, cur) == Alive(w) \ (IF cur = NoAction THEN {} ELSE Subtree(w, cur.action))

\* Entity handles are opaque: after a pass the live entities are renumbered,
\* the slot's subtree first (depth first), then the others in creation order
RECURSIVE Dfs(_, _)
RECURSIVE DfsAll(_, _, _)
Dfs(w, e) == <<e>> \o DfsAll(w, w[e].children, 1)

DfsAll(w, es, i) == IF i > Len(es) THEN <<>> ELSE Dfs(w, es[i]) \o DfsAll(w, es, i + 1)

RECURSIVE Ascending(_)
Ascending(S) == IF S = {} THEN <<>> ELSE <<MinOf(S)>> \o Ascending(S \ {MinOf(S)})

Order(w, cur) ==
    LET slot == IF cur = NoAction THEN <<>> ELSE Dfs(w, cur.action)
        others == {e \in Roots(w) : cur = NoAction \/ e # cur.action}
    IN slot \o DfsAll(w, Ascending(others), 1)

\* the new handle of entity e (0 when e is not alive)
Renamed(w, cur, e) ==
    LET order == Order(w, cur)
    IN IF \E k \in DOMAIN order : order[k] = e
       THEN CHOOSE k \in DOMAIN order : order[k] = e
       ELSE 0

Compact(w, cur) ==
    LET order == Order(w, cur)
    IN [k \in Ids |->
          IF k > Len(order) THEN Dead
          ELSE LET o == w[order[k]]
               IN [o EXCEPT !.parent = Renamed(w, cur, @),
                            !.children = [j \in DOMAIN @ |-> Renamed(w, cur, @[j])]]]

CompactAction(w, cur) ==
    IF cur = NoAction THEN NoAction ELSE [cur EXCEPT !.action = Renamed(w, cur, @)]

NoWorld == [i \in Ids |-> Dead]

\* some entity that was not yet Success or Failure in w is gone in w2
DestroyedBusy(w, w2) == \E e \in Alive(w) : ~w2[e].alive /\ ~is_done(w[e].state)

\* some entity alive in w and in w2 left Success or Failure, or went from
\* Cancelled back to Executing
Regressed(w, w2) ==
    \E e \in Alive(w) :
        /\ w2[e].alive
        /\ \/ is_done(w[e].state) /\ w2[e].state # w[e].state
           \/ w[e].state = "Cancelled" /\ w2[e].state = "Executing"

NoMap == [e \in Ids |-> 0]

\* no composite scorer
NoScorer == [kind |-> None, threshold |-> 0, weights |-> <<>>]

\* the scorers of one choice: a FixedScorer under a composite under a composite
ScorerNodes == {"fixed", "inner", "outer"}

\* no scorers, no schedule
NoFrame == [inner |-> None, outer |-> None, fixed |-> 0, ran |-> {},
            score |-> [n \in ScorerNodes |-> 0],
            fresh |-> [n \in ScorerNodes |-> FALSE]]

\* ThinkerIterations::new, with the history of the last run of the loop:
\* the Thinkers `seen` since index was 0, those seen before the run, the
\* places in the query of the first and the last Thinker the run processed
NoIterations == [index |-> 0, seen |-> {}, before |-> {}, first |-> 1, stop |-> 0,
                 early |-> FALSE]

\* the history of a pass that is not a Thinker pass
Idle(op) == [op |-> op, picked |-> None, state |-> None, queue |-> <<>>,
             before |-> 0, before_tmpl |-> None, before_state |-> None,
             destroyed_busy |-> FALSE, prev |-> NoWorld,
             regressed |-> FALSE, map |-> NoMap, scores |-> <<>>,
             scorer |-> NoScorer, score |-> 0, panicked |-> FALSE,
             frame |-> NoFrame, iterations |-> NoIterations]

Scores == [1..Len(choices) -> 0..MaxScore]

InitWith(configs) ==
    /\ \E c \in configs :
          /\ picker = c.picker
          /\ choices = c.choices
          /\ otherwise = c.otherwise
    /\ state = "Requested"
    /\ current_action = NoAction
    /\ scheduled_actions = <<>>
    /\ world = NoWorld
    /\ agent = Attached
    /\ last = Idle("init")

Init == InitWith(Configs)

\* one run of thinker_system over the Thinker, its commands applied
ThinkerTick ==
    \E picked \in {pick(picker, choices, scores) : scores \in Scores} :
        \E T \in {thinker_system(Th(state, current_action, scheduled_actions, world),
                                  picked, otherwise)} :
           /\ agent.thinkers > 0
           /\ Cardinality(Leaked(T.world, T.current_action)) <= MaxLeaked
           /\ state' = T.state
           /\ current_action' = CompactAction(T.world, T.current_action)
           /\ scheduled_actions' = T.scheduled_actions
           /\ world' = Compact(T.world, T.current_action)
           /\ last' = [op |-> "thinker", picked |-> picked, state |-> state,
                       queue |-> scheduled_actions,
                       before |-> Renamed(T.world, T.current_action, current_action.action),
                       before_tmpl |-> current_action.tmpl,
                       before_state |-> StateOf(world, current_action),
                       destroyed_busy |-> DestroyedBusy(world, T.world),
                       prev |-> NoWorld,
                       regressed |-> Regressed(world, T.world),
                       map |-> NoMap, scores |-> <<>>,
                       scorer |-> NoScorer, score |-> 0, panicked |-> FALSE,
                       frame |-> NoFrame, iterations |-> NoIterations]
           /\ UNCHANGED <<agent, picker, choices, otherwise>>

\* one run of sequence_system, its commands applied
SequenceTick ==
    LET w == IF sequence_panics(world) THEN world ELSE sequence_system(world)
    IN /\ Cardinality(Leaked(w, current_action)) <= MaxLeaked
       /\ world' = Compact(w, current_action)
       /\ last' = [Idle("sequence") EXCEPT
                       !.destroyed_busy = DestroyedBusy(world, w),
                       !.prev = world,
                       !.regressed = Regressed(world, w),
                       !.map = [e \in Ids |-> Renamed(w, current_action, e)],
                       !.panicked = sequence_panics(world)]
       /\ UNCHANGED <<agent, picker, choices, otherwise, state, current_action, scheduled_actions>>

\* a leaf action system reports the outcome of one of its actions
LeafAct ==
    \E e \in Leaves(world), s \in {"Success", "Failure"} :
        /\ world[e].state \in {"Executing", "Cancelled"}
        /\ world' = SetState(world, e, s)
        /\ last' = Idle("actions")
        /\ UNCHANGED <<agent, picker, choices, otherwise, state, current_action, scheduled_actions>>

\* Thinker::schedule_action
schedule_action ==
    \E action \in Schedulable :
        /\ Len(scheduled_actions) < MaxQueue
        /\ scheduled_actions' = Append(scheduled_actions, action)
        /\ last' = Idle("external")
        /\ UNCHANGED <<agent, picker, choices, otherwise, state, current_action, world>>

\* the owner of the Thinker cancels it (ActionState::cancel)
CancelThinker ==
    /\ state \in {"Requested", "Executing"}
    /\ state' = "Cancelled"
    /\ last' = Idle("external")
    /\ UNCHANGED <<agent, picker, choices, otherwise, current_action, scheduled_actions, world>>

Next == ThinkerTick \/ SequenceTick \/ LeafAct \/ schedule_action \/ CancelThinker

Spec == Init /\ [][Next]_vars

\* a Thinker with one choice, and two templates the application schedules
QueueConfigs == {[picker |-> Highest, choices |-> <<"A">>, otherwise |-> None]}

QueueTemplates == {"Q", "P"}

InitQueue == InitWith(QueueConfigs)

\* push_front in the place of push_back
push_front(scheduled, action) == <<action>> \o scheduled

\* VecDeque::push_back of Thinker::schedule_action
push_back(scheduled, action) == Append(scheduled, action)

\* Thinker::schedule_action, of either template, on a queue that holds one
\* more than MaxQueue
ScheduleQueue ==
    \E action \in QueueTemplates :
        /\ Len(scheduled_actions) <= MaxQueue
        /\ scheduled_actions' = push_back(scheduled_actions, action)
        /\ last' = [Idle("schedule") EXCEPT !.queue = scheduled_actions]
        /\ UNCHANGED <<agent, picker, choices, otherwise, state, current_action, world>>

NextQueue == ThinkerTick \/ LeafAct \/ ScheduleQueue

SpecQueue == InitQueue /\ [][NextQueue]_vars

\* a Thinker whose second choice is a Race
RaceConfigs == {[picker |-> Highest, choices |-> <<"A", "R">>, otherwise |-> None]}

InitRace == InitWith(RaceConfigs)

SpecRace == InitRace /\ [][Next]_vars

\* a Thinker whose second choice is a Step
StepConfigs == {[picker |-> Highest, choices |-> <<"A", "S">>, otherwise |-> None]}

InitStep == InitWith(StepConfigs)

SpecStep == InitStep /\ [][Next]_vars

\* a Thinker whose second choice is a Step over a Race and a Join
NestedConfigs == {[picker |-> Highest, choices |-> <<"A", "N">>, otherwise |-> None]}

InitNested == InitWith(NestedConfigs)

SpecNested == InitNested /\ [][Next]_vars

\* Thinkers over leaf actions and over each of the three composites, these
\* with two actions each
SequenceConfigs ==
    {[picker |-> FirstToScore(MaxScore), choices |-> <<"A", "B">>, otherwise |-> Default],
     [picker |-> Highest, choices |-> <<"A", "J2">>, otherwise |-> None],
     [picker |-> Highest, choices |-> <<"A", "R2">>, otherwise |-> None],
     [picker |-> Highest, choices |-> <<"A", "S2">>, otherwise |-> None]}

InitSequences == InitWith(SequenceConfigs)

SpecSequences == InitSequences /\ [][Next]_vars

\* ------------------------------------------------------- pickers on their own
\* the action templates of the choices handed to a picker
PickTemplates == <<"A", "B", "C", "D", "E", "F">>

PickChoices == {SubSeq(PickTemplates, 1, n) : n \in 0..MaxChoices}

PickScores == [1..Len(choices) -> 0..MaxPickScore]

InitPick ==
    /\ picker \in {FirstToScore(t) : t \in 0..MaxPickScore} \cup {Highest}
    /\ choices \in PickChoices
    /\ otherwise = None
    /\ state = "Requested"
    /\ current_action = NoAction
    /\ scheduled_actions = <<>>
    /\ world = NoWorld
    /\ agent = Attached
    /\ last = Idle("init")

\* one call of Picker::pick, on any scores
PickTick ==
    \E scores \in PickScores :
        /\ last' = [Idle("pick") EXCEPT !.picked = pick(picker, choices, scores),
                                        !.scores = scores]
        /\ UNCHANGED <<agent, picker, choices, otherwise, state, current_action,
                       scheduled_actions, world>>

NextPick == PickTick

SpecPick == InitPick /\ [][NextPick]_vars

\* ----------------------------------------------------------------- scorers
\* f32 values are integers in units of 1/ScoreUnit; NaN is a value apart that
\* every comparison answers false on
ScoreUnit == 8
NaN == -1000000

flt(a, b) == a # NaN /\ b # NaN /\ a < b
fge(a, b) == a # NaN /\ b # NaN /\ a >= b
fmul(a, b) == (a * b) \div ScoreUnit
fdiv(a, b) == (a * ScoreUnit) \div b
\* f32::powf(0.5): NaN on a negative value
fsqrt(a) ==
    IF a < 0 THEN NaN
    ELSE CHOOSE r \in 0..(a + ScoreUnit) :
            r * r <= a * ScoreUnit /\ a * ScoreUnit < (r + 1) * (r + 1)

\* f32::clamp(0.0, 1.0): NaN stays NaN
clamp(x) == IF flt(x, 0) THEN 0 ELSE IF flt(ScoreUnit, x) THEN ScoreUnit ELSE x

\* Score::set bringing the value into the range
Score_set_saturating(value) == [panicked |-> FALSE, score |-> clamp(value)]

\* Score::set_unchecked
Score_set_unchecked(value) == [panicked |-> FALSE, score |-> value]

\* Score::set: panics unless (0.0..=1.0).contains(&value)
Score_set(value) ==
    IF fge(value, 0) /\ fge(ScoreUnit, value)
    THEN [panicked |-> FALSE, score |-> value]
    ELSE [panicked |-> TRUE, score |-> 0]

RECURSIVE aon_sum_no_break(_, _, _, _)
\* the loop of all_or_nothing_system going on after a child below the threshold
aon_sum_no_break(threshold, scores, i, sum) ==
    IF i > Len(scores) THEN sum
    ELSE IF flt(scores[i], threshold)
    THEN aon_sum_no_break(threshold, scores, i + 1, 0)
    ELSE aon_sum_no_break(threshold, scores, i + 1, sum + scores[i])

RECURSIVE aon_sum(_, _, _, _)
\* all_or_nothing_system: the loop, with its break
aon_sum(threshold, scores, i, sum) ==
    IF i > Len(scores) THEN sum
    ELSE IF flt(scores[i], threshold) THEN 0
    ELSE aon_sum(threshold, scores, i + 1, sum + scores[i])

all_or_nothing_system(threshold, scores) ==
    Score_set(clamp(aon_sum(threshold, scores, 1, 0)))

RECURSIVE SumOf(_, _)
SumOf(xs, i) == IF i > Len(xs) THEN 0 ELSE xs[i] + SumOf(xs, i + 1)

RECURSIVE ProductOf(_, _)
ProductOf(xs, i) == IF i > Len(xs) THEN ScoreUnit ELSE fmul(xs[i], ProductOf(xs, i + 1))

\* sum_of_scorers_system writing the sum as it is
sum_of_scorers_system_no_clamp(threshold, scores) ==
    LET sum == SumOf(scores, 1)
    IN Score_set(IF flt(sum, threshold) THEN 0 ELSE sum)

sum_of_scorers_system(threshold, scores) ==
    LET sum == SumOf(scores, 1)
    IN Score_set(clamp(IF flt(sum, threshold) THEN 0 ELSE sum))

product_of_scorers_system(threshold, scores) ==
    LET product == ProductOf(scores, 1)
    IN Score_set(clamp(IF flt(product, threshold) THEN 0 ELSE product))

compensated_product_of_scorers_system(threshold, scores) ==
    LET product == ProductOf(scores, 1)
        mod_factor == ScoreUnit - fdiv(ScoreUnit, Len(scores) * ScoreUnit)
        makeup == fmul(ScoreUnit - product, mod_factor)
        compensated == IF product < ScoreUnit THEN product + fmul(makeup, product)
                       ELSE product
    IN Score_set(clamp(IF flt(compensated, threshold) THEN 0 ELSE compensated))

RECURSIVE MaxOf(_, _, _)
MaxOf(xs, i, best) ==
    IF i > Len(xs) THEN best
    ELSE MaxOf(xs, i + 1, IF xs[i] > best THEN xs[i] ELSE best)

\* winning_scorer_system: the last of the sorted children, if it reaches the threshold
winning_scorer_system(threshold, scores) ==
    LET winning == MaxOf(scores, 2, scores[1])
    IN Score_set(clamp(IF fge(winning, threshold) THEN winning ELSE 0))

\* WeightedScore::product of each child
Weighted(scores, weights) == [i \in DOMAIN scores |-> scores[i] * weights[i]]

weighted_sum(scores, weights) == SumOf(Weighted(scores, weights), 1)

weighted_product(scores, weights) == ProductOf(Weighted(scores, weights), 1)

chebyshev_distance(scores, weights) == MaxOf(Weighted(scores, weights), 1, 0)

weighted_measure(scores, weights) ==
    LET wsum == SumOf(weights, 1)
    IN IF wsum = 0 THEN 0
       ELSE fsqrt(SumOf([i \in DOMAIN scores |->
                            fmul(fdiv(weights[i] * ScoreUnit, wsum * ScoreUnit),
                                 fmul(scores[i], scores[i]))], 1))

Measures == {"weighted_sum", "weighted_product", "chebyshev_distance", "weighted_measure"}

\* (this.measure)(&cache)
measure(m, scores, weights) ==
    CASE m = "weighted_sum" -> weighted_sum(scores, weights)
      [] m = "weighted_product" -> weighted_product(scores, weights)
      [] m = "chebyshev_distance" -> chebyshev_distance(scores, weights)
      [] OTHER -> weighted_measure(scores, weights)

measured_scorers_system(m, threshold, weights, scores) ==
    LET score == measure(m, scores, weights)
        filter == fge(score, threshold)
    IN Score_set(clamp(IF filter THEN score ELSE 0))

Composites == {"AllOrNothing", "SumOfScorers", "ProductOfScorers",
               "CompensatedProductOfScorers", "WinningScorer"}

\* the scorer system that evaluates a composite scorer of a kind
evaluate(scorer, scores) ==
    CASE scorer.kind = "AllOrNothing" -> all_or_nothing_system(scorer.threshold, scores)
      [] scorer.kind = "SumOfScorers" -> sum_of_scorers_system(scorer.threshold, scores)
      [] scorer.kind = "ProductOfScorers" ->
            product_of_scorers_system(scorer.threshold, scores)
      [] scorer.kind = "CompensatedProductOfScorers" ->
            compensated_product_of_scorers_system(scorer.threshold, scores)
      [] scorer.kind = "WinningScorer" -> winning_scorer_system(scorer.threshold, scores)
      [] OTHER ->
            measured_scorers_system(scorer.kind, scorer.threshold, scorer.weights, scores)

Thresholds == {NaN, 0 - ScoreUnit, 0, ScoreUnit \div 2, ScoreUnit, 2 * ScoreUnit}

\* the values of the children of a composite scorer
ChildScores == {0, ScoreUnit \div 2, ScoreUnit}

\* the weights given to a MeasuredScorer
Weights == {0 - MaxWeight, 0, 1, MaxWeight}

\* the composite scorers built: kind, threshold, one weight per child
Scorers ==
    UNION {[kind : Composites, threshold : Thresholds, weights : {[i \in 1..n |-> 1]}]
             \cup [kind : Measures, threshold : Thresholds,
                   weights : [1..n -> Weights]]
           : n \in 1..MaxScorers}

InitScore ==
    /\ picker = Highest
    /\ choices = <<>>
    /\ otherwise = None
    /\ state = "Requested"
    /\ current_action = NoAction
    /\ scheduled_actions = <<>>
    /\ world = NoWorld
    /\ agent = Attached
    /\ \E scorer \in Scorers : last = [Idle("init") EXCEPT !.scorer = scorer]

\* one run of the scorer's system, on any values of its children
ScoreTick ==
    \E scores \in [DOMAIN last.scorer.weights -> ChildScores] :
        LET r == evaluate(last.scorer, scores)
        IN /\ last' = [last EXCEPT !.op = "score", !.scores = scores,
                                   !.score = r.score, !.panicked = r.panicked]
           /\ UNCHANGED <<agent, picker, choices, otherwise, state, current_action,
                          scheduled_actions, world>>

NextScore == ScoreTick

SpecScore == InitScore /\ [][NextScore]_vars

\* ---------------------------------------------------------------- schedule
\* One schedule of the plugin: the scorer systems and the Thinker's, added
\* without an ordering between them.  A frame runs each system once, in an
\* order the executor chooses; a system visits the entities of its query in
\* an order the query chooses.
FrameKinds == {"SumOfScorers", "WinningScorer"}

\* the systems with something to do
Systems(f) == {"FixedScorer", f.inner, f.outer, "Thinker"}

KindOf(f, n) == IF n = "inner" THEN f.inner ELSE f.outer

ChildOf(n) == IF n = "inner" THEN "fixed" ELSE "inner"

\* a composite's system on one entity of its query; fresh: the value is
\* made of values written in this frame
EvalNode(f, n) ==
    LET r == evaluate([kind |-> KindOf(f, n), threshold |-> 0, weights |-> <<1>>],
                      <<f.score[ChildOf(n)]>>)
    IN [f EXCEPT !.score[n] = r.score, !.fresh[n] = f.fresh[ChildOf(n)]]

RECURSIVE EvalAll(_, _, _)
EvalAll(f, order, i) ==
    IF i > Len(order) THEN f ELSE EvalAll(EvalNode(f, order[i]), order, i + 1)

\* the orders a query can visit a set of entities in
Orders(nodes) ==
    {o \in UNION {[1..k -> nodes] : k \in 0..Cardinality(nodes)} :
        /\ Len(o) = Cardinality(nodes)
        /\ \A i, j \in DOMAIN o : i # j => o[i] # o[j]}

InitFrame ==
    /\ picker = Highest
    /\ choices = <<"A">>
    /\ otherwise = None
    /\ state = "Executing"
    /\ current_action = NoAction
    /\ scheduled_actions = <<>>
    /\ world = NoWorld
    /\ agent = Attached
    /\ \E inner \in FrameKinds, outer \in FrameKinds, fixed \in ChildScores :
          last = [Idle("init") EXCEPT
                    !.frame = [NoFrame EXCEPT !.inner = inner, !.outer = outer,
                                              !.fixed = fixed]]

Frozen == UNCHANGED <<agent, picker, choices, otherwise, state, current_action,
                      scheduled_actions, world>>

\* fixed_scorer_system
RunFixed ==
    LET f == last.frame
    IN /\ "FixedScorer" \notin f.ran
       /\ last' = [last EXCEPT !.op = "fixed",
                     !.frame = [f EXCEPT !.score["fixed"] = Score_set(f.fixed).score,
                                         !.fresh["fixed"] = TRUE,
                                         !.ran = f.ran \cup {"FixedScorer"}]]
       /\ Frozen

\* the system of one kind of composite, over every entity of that kind
RunComposite ==
    LET f == last.frame
    IN \E kind \in {f.inner, f.outer} \ f.ran :
       \E order \in Orders({n \in {"inner", "outer"} : KindOf(f, n) = kind}) :
          /\ last' = [last EXCEPT !.op = "composite",
                        !.frame = [EvalAll(f, order, 1) EXCEPT !.ran = f.ran \cup {kind}]]
          /\ Frozen

\* thinker_system: the picker reads the Score of the choice's scorer
RunThinker ==
    LET f == last.frame
    IN /\ "Thinker" \notin f.ran
       /\ last' = [last EXCEPT !.op = "arbitrate",
                     !.picked = pick(picker, choices, <<f.score["outer"]>>),
                     !.frame = [f EXCEPT !.ran = f.ran \cup {"Thinker"}]]
       /\ Frozen

\* the schedule has run; user code may give the FixedScorer another value
\* before it runs again
NextFrame ==
    LET f == last.frame
    IN /\ f.ran = Systems(f)
       /\ \E fixed \in ChildScores :
             last' = [last EXCEPT !.op = "frame", !.picked = None,
                       !.frame = [f EXCEPT !.ran = {}, !.fixed = fixed,
                                           !.fresh = [n \in ScorerNodes |-> FALSE]]]
       /\ Frozen

NextOrder == RunFixed \/ RunComposite \/ RunThinker \/ NextFrame

SpecOrder == InitFrame /\ [][NextOrder]_vars

\* --------------------------------------------------- the Score's mutators
\* the f32 values handed to a mutator
SetValues == ((0 - ScoreUnit)..(2 * ScoreUnit)) \cup {NaN}

InitSet ==
    /\ picker = Highest
    /\ choices = <<>>
    /\ otherwise = None
    /\ state = "Requested"
    /\ current_action = NoAction
    /\ scheduled_actions = <<>>
    /\ world = NoWorld
    /\ agent = Attached
    /\ last = Idle("init")

\* Score::set on a Score: a panic leaves the assignment undone
SetTick ==
    \E value \in SetValues :
        LET r == Score_set(value)
        IN /\ last' = [last EXCEPT !.op = "set", !.scores = <<value, last.score>>,
                                   !.score = IF r.panicked THEN last.score ELSE r.score,
                                   !.panicked = r.panicked]
           /\ Frozen

\* Score::set_unchecked on a Score
SetUncheckedTick ==
    \E value \in SetValues :
        LET r == Score_set_unchecked(value)
        IN /\ last' = [last EXCEPT !.op = "set_unchecked",
                                   !.scores = <<value, last.score>>,
                                   !.score = r.score, !.panicked = r.panicked]
           /\ Frozen

NextSet == SetTick \/ SetUncheckedTick

SpecSet == InitSet /\ [][NextSet]_vars

\* a Thinker that nobody cancels, over two leaf actions or over a Join and a
\* leaf action; thinker_system is in the schedule of every frame
SwitchConfigs ==
    {[picker |-> Highest, choices |-> <<"A", "B">>, otherwise |-> None],
     [picker |-> Highest, choices |-> <<"J2", "B">>, otherwise |-> None]}

InitSwitch == InitWith(SwitchConfigs)

NextSwitch == ThinkerTick \/ SequenceTick \/ LeafAct

SpecSwitch == InitSwitch /\ [][NextSwitch]_vars /\ WF_vars(ThinkerTick)

\* ------------------------------------------------- the loop over the Thinkers
\* the literal of `iterations.index % 500`
BatchSize == 500

\* the Thinkers the query of thinker_system matches, at most
MaxQueried == 1001

\* how many Thinkers a run processes before start.elapsed() exceeds
\* max_duration: none, one batch, all
Budgets == {0, BatchSize, MaxQueried}

\* the loop of thinker_system.  `position` Thinkers of the query are behind
\* the iterator, `done` were processed by this run, and the time is up once
\* more than `budget` were.  The iterations up to the next one that leaves
\* the index a multiple of BatchSize, the only ones after which the loop
\* can return, are taken in one step.
RECURSIVE thinker_loop(_, _, _, _, _)
thinker_loop(thinkers, position, index, done, budget) ==
    LET batch == BatchSize - (index % BatchSize)
        left == thinkers - position
    IN IF left <= 0
       THEN [index |-> 0, stop |-> position, early |-> FALSE]
       ELSE IF left < batch
       THEN [index |-> 0, stop |-> thinkers, early |-> FALSE]
       ELSE IF done + batch > budget
       THEN [index |-> index + batch, stop |-> position + batch, early |-> TRUE]
       ELSE thinker_loop(thinkers, position + batch, index + batch, done + batch, budget)

\* the loop starting at the head of the query on every run
thinker_iterations_no_skip(thinkers, index, budget) ==
    [first |-> 1] @@ thinker_loop(thinkers, 0, index, 0, budget)

\* thinker_system over query.iter_mut().skip(iterations.index)
thinker_iterations(thinkers, index, budget) ==
    [first |-> index + 1] @@ thinker_loop(thinkers, index, index, 0, budget)

InitIterations ==
    /\ picker = Highest
    /\ choices = <<>>
    /\ otherwise = None
    /\ state = "Executing"
    /\ current_action = NoAction
    /\ scheduled_actions = <<>>
    /\ world = NoWorld
    /\ \E thinkers \in 0..MaxQueried : agent = [Attached EXCEPT !.thinkers = thinkers]
    /\ last = Idle("init")

\* one run of thinker_system over all the Thinkers of the world
ThinkerRun ==
    \E budget \in Budgets :
        LET it == last.iterations
            r == thinker_iterations(agent.thinkers, it.index, budget)
            seen == it.seen \cup (r.first..r.stop)
        IN /\ last' = [last EXCEPT !.op = "run",
                          !.iterations = [index |-> r.index,
                                          seen |-> IF r.index = 0 THEN {} ELSE seen,
                                          before |-> it.seen,
                                          first |-> r.first, stop |-> r.stop,
                                          early |-> r.early]]
           /\ Frozen

SpecIterations == InitIterations /\ [][ThinkerRun]_vars

\* ------------------------------------------------------------------ agents
\* An agent acquires and loses its ThinkerBuilder and is despawned by the
\* application; the attach, detach and cleanup systems follow.
ActorConfigs == {[picker |-> Highest, choices |-> <<"A", "B">>, otherwise |-> None]}

\* an agent with a ThinkerBuilder that no system has seen yet
Unattached == [alive |-> TRUE, builder |-> TRUE, has_thinker |-> FALSE,
               thinkers |-> 0, scorers |-> 0]

InitActor ==
    /\ \E c \in ActorConfigs :
          /\ picker = c.picker
          /\ choices = c.choices
          /\ otherwise = c.otherwise
    /\ state = "Requested"
    /\ current_action = NoAction
    /\ scheduled_actions = <<>>
    /\ world = NoWorld
    /\ agent = Unattached
    /\ last = Idle("init")

Static == UNCHANGED <<picker, choices, otherwise>>

\* the application inserts a ThinkerBuilder on the agent
AddDefinition ==
    /\ agent.alive /\ ~agent.builder
    /\ agent' = [agent EXCEPT !.builder = TRUE]
    /\ last' = Idle("external")
    /\ UNCHANGED <<state, current_action, scheduled_actions, world>>
    /\ Static

\* the application removes the ThinkerBuilder from the agent
RemoveDefinition ==
    /\ agent.alive /\ agent.builder
    /\ agent' = [agent EXCEPT !.builder = FALSE]
    /\ last' = Idle("external")
    /\ UNCHANGED <<state, current_action, scheduled_actions, world>>
    /\ Static

\* the application despawns the agent, its components with it
DestroyActor ==
    /\ agent.alive
    /\ agent' = [agent EXCEPT !.alive = FALSE, !.builder = FALSE, !.has_thinker = FALSE]
    /\ last' = Idle("external")
    /\ UNCHANGED <<state, current_action, scheduled_actions, world>>
    /\ Static

\* thinker_component_attach_system: ThinkerBuilder::spawn for the agents
\* with a ThinkerBuilder and without HasThinker, one scorer per choice under
\* the Thinker entity
thinker_component_attach_system ==
    /\ IF agent.alive /\ agent.builder /\ ~agent.has_thinker
          /\ agent.thinkers < MaxThinkers
       THEN /\ agent' = [agent EXCEPT !.has_thinker = TRUE,
                                       !.thinkers = agent.thinkers + 1,
                                       !.scorers = agent.scorers + Len(choices)]
            /\ state' = "Requested"
            /\ current_action' = NoAction
            /\ scheduled_actions' = <<>>
       ELSE UNCHANGED <<agent, state, current_action, scheduled_actions>>
    /\ last' = [Idle("attach") EXCEPT !.state = IF agent.thinkers > 0 THEN state ELSE None]
    /\ UNCHANGED world
    /\ Static

\* thinker_component_detach_system: for the agents with HasThinker and
\* without a ThinkerBuilder, the Thinker entity is despawned with its
\* children (the scorers) and HasThinker is removed; the action in the slot
\* is no child of the Thinker entity
thinker_component_detach_system ==
    /\ IF agent.alive /\ agent.has_thinker /\ ~agent.builder
       THEN /\ agent' = [agent EXCEPT !.has_thinker = FALSE, !.thinkers = 0,
                                       !.scorers = 0]
            /\ state' = "Requested"
            /\ current_action' = NoAction
            /\ scheduled_actions' = <<>>
       ELSE UNCHANGED <<agent, state, current_action, scheduled_actions>>
    /\ last' = Idle("detach")
    /\ UNCHANGED world
    /\ Static

\* actor_gone_cleanup leaving the action entities alone
actor_gone_cleanup_thinker_only ==
    /\ IF ~(agent.alive /\ agent.builder)
       THEN /\ agent' = [agent EXCEPT !.thinkers = 0, !.scorers = 0]
            /\ state' = "Requested"
            /\ current_action' = NoAction
            /\ scheduled_actions' = <<>>
            /\ world' = world
       ELSE UNCHANGED <<agent, state, current_action, scheduled_actions, world>>
    /\ last' = [Idle("cleanup") EXCEPT !.prev = world]
    /\ Static

\* actor_gone_cleanup: every entity with an Actor whose agent has no
\* ThinkerBuilder (or is gone) is despawned with its children: the Thinker,
\* the scorers, the actions
actor_gone_cleanup ==
    /\ IF ~(agent.alive /\ agent.builder)
       THEN /\ agent' = [agent EXCEPT !.thinkers = 0, !.scorers = 0]
            /\ state' = "Requested"
            /\ current_action' = NoAction
            /\ scheduled_actions' = <<>>
            /\ world' = NoWorld
       ELSE UNCHANGED <<agent, state, current_action, scheduled_actions, world>>
    /\ last' = [Idle("cleanup") EXCEPT !.prev = world]
    /\ Static

NextActor ==
    \/ AddDefinition \/ RemoveDefinition \/ DestroyActor
    \/ thinker_component_attach_system \/ thinker_component_detach_system
    \/ actor_gone_cleanup
    \/ ThinkerTick \/ LeafAct

SpecActor == InitActor /\ [][NextActor]_vars

\* actor_gone_cleanup is a system of the schedule: it runs in every frame
SpecActorFair == SpecActor /\ WF_vars(actor_gone_cleanup)

\* ----------------------------------------------------------------- claims
\* what a Thinker pass did, read off the history and the state after it
Ticked == last.op = "thinker"
TickedExecuting == Ticked /\ last.state = "Executing"
NonTerminal == {"Requested", "Executing", "Cancelled"}
Terminal == {"Success", "Failure"}
SlotState == StateOf(world, current_action)
\* the slot holds the entity it held before the pass
SameInstance == last.before # 0 /\ current_action.action = last.before
\* the slot holds an entity it did not hold before the pass
Spawned == current_action # NoAction /\ current_action.action # last.before
\* the entity the slot held before the pass is gone
Destroyed == last.before_tmpl # None /\ last.before = 0
Untouched == SameInstance /\ SlotState = last.before_state
Popped == Len(scheduled_actions) < Len(last.queue)

\* C1: the Thinker never puts a new action in its slot while the action in
\* the slot is not yet Success or Failure; a pick of another template while
\* the action is Executing cancels it and instantiates nothing; an action is
\* instantiated over another only in a pass that saw that one terminal.
C1_CancelBeforeReplace ==
    Ticked =>
        /\ last.before_state \in NonTerminal => SameInstance
        /\ (/\ last.state = "Executing"
            /\ last.picked \notin {None, last.before_tmpl}
            /\ last.before_state = "Executing")
                => SameInstance /\ SlotState = "Cancelled"
        /\ (Spawned /\ last.before_tmpl # None) => last.before_state \in Terminal

C1_Witness ==
    /\ TickedExecuting
    /\ last.picked \notin {None, last.before_tmpl}
    /\ last.before_state = "Executing"
    /\ SameInstance
    /\ SlotState = "Cancelled"

\* C2 (as stated): a pick of the template of the action in the slot leaves
\* that action untouched, whatever its state.
C2_RepickAnyState ==
    (TickedExecuting /\ last.picked # None /\ last.picked = last.before_tmpl)
        => Untouched

\* C2 (amended): a pick of the template of the action in the slot leaves
\* that action untouched while it is not Success or Failure; a terminal one
\* is destroyed and a fresh instance of the same template takes the slot.
C2_RepickNonTerminal ==
    (TickedExecuting /\ last.picked # None /\ last.picked = last.before_tmpl)
        => IF last.before_state \in NonTerminal
           THEN Untouched
           ELSE /\ Destroyed /\ Spawned
                /\ current_action.tmpl = last.picked
                /\ SlotState = "Executing"

C2_Witness ==
    /\ TickedExecuting
    /\ last.picked # None /\ last.picked = last.before_tmpl
    /\ last.before_state = "Executing"
    /\ Untouched

\* C3: whenever the Thinker puts a new action in a slot that held one, the
\* old subtree is destroyed in that pass, so at most one action subtree
\* spawned by the Thinker is alive.
C3_SingleOccupancy ==
    /\ (Ticked /\ Spawned /\ last.before_tmpl # None) => Destroyed
    /\ Cardinality(Roots(world)) <= 1

\* C4: no pass of the Thinker or of a Join/Race/Step destroys an entity that
\* was still Executing or Cancelled.
C4_NoTeardownWhileWindingDown ==
    last.op \in {"thinker", "sequence"} => ~last.destroyed_busy

\* C5: in a pass of an Executing Thinker the picker's result is the
\* candidate when there is one; the front of the schedule queue is taken
\* only when the picker returns none; the default only when both are absent.
C5_SelectionPriority ==
    TickedExecuting =>
        /\ last.picked # None =>
              /\ scheduled_actions = last.queue
              /\ Spawned => current_action.tmpl = last.picked
        /\ Popped =>
              /\ last.picked = None
              /\ scheduled_actions = Tail(last.queue)
              /\ Spawned /\ current_action.tmpl = Head(last.queue)
        /\ (last.picked = None /\ last.queue # <<>> /\ last.before_state \notin NonTerminal)
              => Popped
        /\ (last.picked = None /\ Spawned /\ ~Popped) =>
              /\ last.queue = <<>>
              /\ otherwise # None /\ current_action.tmpl = otherwise

C5_Witness ==
    /\ TickedExecuting
    /\ last.picked = None
    /\ Popped
    /\ otherwise # None
    /\ current_action.tmpl = Head(last.queue)

\* C6 (as stated): with a non-empty schedule queue and an action in the slot
\* that is not terminal, the pass sets that action to Cancelled, whatever
\* the picker returns.
C6_SchedulePreempts ==
    (TickedExecuting /\ last.queue # <<>> /\ last.before_state \in NonTerminal)
        => SlotState = "Cancelled"

\* C6 (amended): a non-empty schedule queue cancels nothing: while the
\* action in the slot is not terminal the queue is left as it is and the
\* action is set to Cancelled only by a pick of another template.
C6_ScheduleWaits ==
    (TickedExecuting /\ last.queue # <<>> /\ last.before_state \in NonTerminal)
        => /\ scheduled_actions = last.queue
           /\ SameInstance
           /\ SlotState = IF last.picked \notin {None, last.before_tmpl}
                          THEN "Cancelled"
                          ELSE last.before_state

C6_Witness ==
    /\ TickedExecuting
    /\ last.queue # <<>>
    /\ last.picked = None
    /\ last.before_state = "Executing"
    /\ Untouched
    /\ scheduled_actions = last.queue

\* C7: the default action replaces a terminal action in the slot, destroying
\* it first, also when that one came from the default template; it never
\* cancels or replaces an action that is not terminal.
C7_DefaultAction ==
    (TickedExecuting /\ last.picked = None /\ otherwise # None) =>
        /\ last.before_state \in NonTerminal => Untouched
        /\ (last.before_state \in Terminal /\ last.queue = <<>>) =>
              /\ Destroyed /\ Spawned
              /\ current_action.tmpl = otherwise
              /\ SlotState = "Executing"

C7_Witness ==
    /\ TickedExecuting
    /\ last.picked = None
    /\ last.before_tmpl = otherwise
    /\ last.before_state \in Terminal
    /\ Destroyed /\ Spawned
    /\ current_action.tmpl = otherwise

\* C8: a Cancelled Thinker with an empty slot becomes Success in that pass;
\* with an Executing action it cancels the action and stays Cancelled; it
\* destroys the action once terminal; it is Success only with an empty slot
\* and never Failure.
C8_ThinkerCancellation ==
    /\ state # "Failure"
    /\ state = "Success" => current_action = NoAction
    /\ (Ticked /\ last.state = "Cancelled") =>
          CASE last.before_state = None -> state = "Success"
            [] last.before_state \in {"Requested", "Executing"} ->
                  state = "Cancelled" /\ SameInstance /\ SlotState = "Cancelled"
            [] last.before_state = "Cancelled" -> state = "Cancelled" /\ Untouched
            [] OTHER ->
                  state = "Cancelled" /\ Destroyed /\ current_action = NoAction

C8_Witness ==
    /\ Ticked
    /\ last.state = "Cancelled"
    /\ last.before_state \in Terminal
    /\ Destroyed
    /\ state = "Cancelled"

\* the Joins that were Executing with children when the last sequence pass began
ExecutingJoins ==
    {e \in Alive(last.prev) :
        /\ Mode(last.prev[e].tmpl) = "Join"
        /\ last.prev[e].state = "Executing"
        /\ last.prev[e].children # <<>>}

ChildBefore(e, k) == last.prev[last.prev[e].children[k]].state
ChildAfter(e, k) == world[last.prev[e].children[k]].state

\* C9: an Executing Join becomes Success exactly in a pass in which every
\* child is Success, Failure exactly in a pass in which some child is
\* Failure (the Executing children before the failed one are cancelled),
\* and stays Executing otherwise.
C9_JoinExecuting ==
    last.op = "sequence" =>
        \A e \in ExecutingJoins :
            LET n == Len(last.prev[e].children)
                failed == {k \in 1..n : ChildBefore(e, k) = "Failure"}
            IN /\ world[e].alive /\ world[e].children = last.prev[e].children
               /\ world[e].state = "Success" <=> \A k \in 1..n : ChildBefore(e, k) = "Success"
               /\ world[e].state = "Failure" <=> failed # {}
               /\ world[e].state \in {"Success", "Failure", "Executing"}
               /\ \A k \in 1..n :
                     (ChildBefore(e, k) = "Executing" /\ \E f \in failed : k < f)
                        => ChildAfter(e, k) = "Cancelled"
               /\ \A k \in 1..n :
                     ChildBefore(e, k) # "Executing" => ChildAfter(e, k) = ChildBefore(e, k)

C9_Witness ==
    /\ last.op = "sequence"
    /\ \E e \in ExecutingJoins :
          /\ world[e].state = "Failure"
          /\ ChildBefore(e, 1) = "Executing"
          /\ ChildBefore(e, 2) = "Failure"
          /\ ChildAfter(e, 1) = "Cancelled"

\* the Join pass over children [Success, Failure, Executing]
JoinSFE(e) ==
    /\ Len(last.prev[e].children) = 3
    /\ ChildBefore(e, 1) = "Success"
    /\ ChildBefore(e, 2) = "Failure"
    /\ ChildBefore(e, 3) = "Executing"

\* C10 (as stated): after the pass of a Join over [Success, Failure,
\* Executing] the Join is Failure and the third child is still Executing.
C10_JoinLeavesLaterChild ==
    last.op = "sequence" =>
        \A e \in ExecutingJoins :
            JoinSFE(e) => world[e].state = "Failure" /\ ChildAfter(e, 3) = "Executing"

\* C10 (amended): after the pass of a Join over [Success, Failure,
\* Executing] the Join is Failure and the third child, met after the failed
\* one, has been set to Cancelled.
C10_JoinCancelsLaterChild ==
    last.op = "sequence" =>
        \A e \in ExecutingJoins :
            JoinSFE(e) => world[e].state = "Failure" /\ ChildAfter(e, 3) = "Cancelled"

C10_Witness ==
    /\ last.op = "sequence"
    /\ \E e \in ExecutingJoins :
          JoinSFE(e) /\ world[e].state = "Failure" /\ ChildAfter(e, 3) = "Cancelled"

\* the composites of a mode that were in a state, with children, when the last
\* sequence pass began
CompositesBefore(mode, st) ==
    {e \in Alive(last.prev) :
        /\ Mode(last.prev[e].tmpl) = mode
        /\ last.prev[e].state = st
        /\ last.prev[e].children # <<>>}

ChildrenOf(e) == 1..Len(last.prev[e].children)

\* every Executing child was set to Cancelled, the others kept their state
ExecutingChildrenCancelled(e) ==
    \A k \in ChildrenOf(e) :
        ChildAfter(e, k) = IF ChildBefore(e, k) = "Executing" THEN "Cancelled"
                           ELSE ChildBefore(e, k)

\* C11: a pass over a Cancelled Join sets every Executing child to Cancelled;
\* the Join stays Cancelled while some child is not yet Success or Failure,
\* and in the pass that finds every child terminal it becomes Failure if
\* some child is Failure and Success otherwise.
C11_JoinCancelled ==
    last.op = "sequence" =>
        \A e \in CompositesBefore("Join", "Cancelled") :
            LET all_done == \A k \in ChildrenOf(e) : ChildBefore(e, k) \in Terminal
                any_err == \E k \in ChildrenOf(e) : ChildBefore(e, k) = "Failure"
            IN /\ world[e].alive /\ world[e].children = last.prev[e].children
               /\ ExecutingChildrenCancelled(e)
               /\ world[e].state = IF ~all_done THEN "Cancelled"
                                   ELSE IF any_err THEN "Failure" ELSE "Success"

C11_Witness ==
    /\ last.op = "sequence"
    /\ \E e \in CompositesBefore("Join", "Cancelled") :
          /\ ChildBefore(e, 1) = "Executing"
          /\ ChildBefore(e, 2) = "Failure"
          /\ ChildAfter(e, 1) = "Cancelled"
          /\ world[e].state = "Cancelled"

\* C12: an Executing Race becomes Success exactly in a pass in which some
\* child is Success, and that pass cancels every child that is still
\* Executing; it becomes Failure exactly in a pass in which every child is
\* Failure; otherwise it stays Executing and touches no child.
C12_RaceExecuting ==
    last.op = "sequence" =>
        \A e \in CompositesBefore("Race", "Executing") :
            LET succeeded == {k \in ChildrenOf(e) : ChildBefore(e, k) = "Success"}
                all_failure == \A k \in ChildrenOf(e) : ChildBefore(e, k) = "Failure"
            IN /\ world[e].alive /\ world[e].children = last.prev[e].children
               /\ world[e].state = "Success" <=> succeeded # {}
               /\ world[e].state = "Failure" <=> all_failure
               /\ world[e].state \in {"Success", "Failure", "Executing"}
               /\ succeeded # {} => ExecutingChildrenCancelled(e)
               /\ succeeded = {} =>
                     \A k \in ChildrenOf(e) : ChildAfter(e, k) = ChildBefore(e, k)

C12_Witness ==
    /\ last.op = "sequence"
    /\ \E e \in CompositesBefore("Race", "Executing") :
          /\ world[e].state = "Success"
          /\ ChildBefore(e, 1) = "Executing"
          /\ ChildBefore(e, 2) = "Success"
          /\ ChildBefore(e, 3) = "Failure"
          /\ ChildAfter(e, 1) = "Cancelled"

\* the Race pass over children [Executing, Success, Executing]
RaceESE(e) ==
    /\ Len(last.prev[e].children) = 3
    /\ ChildBefore(e, 1) = "Executing"
    /\ ChildBefore(e, 2) = "Success"
    /\ ChildBefore(e, 3) = "Executing"

\* C13 (as stated): after the pass of a Race over [Executing, Success,
\* Executing] the Race is Success, the first child is Cancelled and the
\* third child is still Executing.
C13_RaceLeavesLaterChild ==
    last.op = "sequence" =>
        \A e \in CompositesBefore("Race", "Executing") :
            RaceESE(e) => /\ world[e].state = "Success"
                          /\ ChildAfter(e, 1) = "Cancelled"
                          /\ ChildAfter(e, 3) = "Executing"

\* C13 (amended): after the pass of a Race over [Executing, Success,
\* Executing] the Race is Success and both the first and the third child
\* have been set to Cancelled.
C13_RaceCancelsLaterChild ==
    last.op = "sequence" =>
        \A e \in CompositesBefore("Race", "Executing") :
            RaceESE(e) => /\ world[e].state = "Success"
                          /\ ChildAfter(e, 1) = "Cancelled"
                          /\ ChildAfter(e, 3) = "Cancelled"

C13_Witness ==
    /\ last.op = "sequence"
    /\ \E e \in CompositesBefore("Race", "Executing") :
          /\ RaceESE(e)
          /\ world[e].state = "Success"
          /\ ChildAfter(e, 1) = "Cancelled"
          /\ ChildAfter(e, 3) = "Cancelled"

\* C14: a pass over a Cancelled Race sets every Executing child to Cancelled;
\* the Race stays Cancelled while some child is not yet Success or Failure,
\* and in the pass that finds every child terminal it becomes Success if
\* some child is Success and Failure otherwise.
C14_RaceCancelled ==
    last.op = "sequence" =>
        \A e \in CompositesBefore("Race", "Cancelled") :
            LET all_done == \A k \in ChildrenOf(e) : ChildBefore(e, k) \in Terminal
                any_ok == \E k \in ChildrenOf(e) : ChildBefore(e, k) = "Success"
            IN /\ world[e].alive /\ world[e].children = last.prev[e].children
               /\ ExecutingChildrenCancelled(e)
               /\ world[e].state = IF ~all_done THEN "Cancelled"
                                   ELSE IF any_ok THEN "Success" ELSE "Failure"

C14_Witness ==
    /\ last.op = "sequence"
    /\ \E e \in CompositesBefore("Race", "Cancelled") :
          /\ ChildBefore(e, 1) = "Success"
          /\ ChildBefore(e, 2) = "Failure"
          /\ ChildBefore(e, 3) = "Failure"
          /\ world[e].state = "Success"

\* the entity an entity of last.prev has become after the pass (0: despawned)
After(e) == last.map[e]

\* the active step of a Step of last.prev, and that step's state
ActiveOf(e) == last.prev[e].children[1]
ActiveState(e) == last.prev[ActiveOf(e)].state
StepsOf(e) == Actions(last.prev[e].tmpl)

\* the children a composite of last.prev had, under their names after the pass
ChildrenAfter(e) == [k \in DOMAIN last.prev[e].children |-> After(last.prev[e].children[k])]

\* an entity of world that is not an entity of last.prev
Fresh(c) == \A e \in Alive(last.prev) : After(e) # c

\* C15: a pass over an Executing Step instantiates the next step only when
\* the active one is Success, despawning that one in the same pass; the next
\* step is the one that follows in the list and the Step stays Executing;
\* the Step becomes Success exactly when the last step is Success, and is
\* then left without children.
C15_StepProgression ==
    last.op = "sequence" =>
        \A e \in CompositesBefore("Step", "Executing") :
            LET i == last.prev[e].active_step
                n == Len(StepsOf(e))
                s == world[After(e)]
            IN /\ After(e) # 0
               /\ (ActiveState(e) = "Success" /\ i < n - 1) =>
                     /\ After(ActiveOf(e)) = 0
                     /\ s.state = "Executing"
                     /\ s.active_step = i + 1
                     /\ Len(s.children) = 1
                     /\ Fresh(s.children[1])
                     /\ world[s.children[1]].tmpl = StepsOf(e)[i + 2]
                     /\ world[s.children[1]].state = "Executing"
               /\ (ActiveState(e) = "Success" /\ i = n - 1) =>
                     /\ After(ActiveOf(e)) = 0
                     /\ s.children = <<>>
                     /\ s.active_step = i
               /\ ActiveState(e) # "Success" =>
                     /\ s.active_step = i
                     /\ \A k \in DOMAIN s.children : ~Fresh(s.children[k])
               /\ ActiveState(e) \in {"Executing", "Cancelled"} =>
                     /\ s.state = "Executing"
                     /\ s.children = ChildrenAfter(e)
               /\ s.state = "Success" <=> (ActiveState(e) = "Success" /\ i = n - 1)

C15_Witness ==
    /\ last.op = "sequence"
    /\ \E e \in CompositesBefore("Step", "Executing") :
          /\ last.prev[e].active_step = Len(StepsOf(e)) - 1
          /\ last.prev[e].active_step > 1
          /\ ActiveState(e) = "Success"
          /\ world[After(e)].state = "Success"
          /\ world[After(e)].children = <<>>

\* the Steps of last.prev that were Failure when the last sequence pass began
FailedSteps ==
    {e \in Alive(last.prev) :
        Mode(last.prev[e].tmpl) = "Step" /\ last.prev[e].state = "Failure"}

\* C16: a pass over an Executing Step whose active step is Failure despawns
\* that step and sets the Step to Failure without instantiating anything;
\* a Step that is Failure is never given another step.
C16_StepFailure ==
    last.op = "sequence" =>
        /\ \A e \in CompositesBefore("Step", "Executing") :
              ActiveState(e) = "Failure" =>
                  /\ After(e) # 0
                  /\ After(ActiveOf(e)) = 0
                  /\ world[After(e)].state = "Failure"
                  /\ world[After(e)].children = <<>>
                  /\ world[After(e)].active_step = last.prev[e].active_step
        /\ \A e \in FailedSteps :
              /\ After(e) # 0
              /\ world[After(e)].state = "Failure"
              /\ world[After(e)].children = ChildrenAfter(e)
              /\ world[After(e)].active_step = last.prev[e].active_step

C16_Witness ==
    /\ last.op = "sequence"
    /\ \E e \in CompositesBefore("Step", "Executing") :
          /\ ActiveState(e) = "Failure"
          /\ last.prev[e].active_step < Len(StepsOf(e)) - 1
          /\ world[After(e)].state = "Failure"
          /\ world[After(e)].children = <<>>

\* C17: in every state between passes a Step has at most one child, and that
\* child is an instance of the step at the Step's active_step.
C17_StepOneChild ==
    \A e \in Alive(world) :
        Mode(world[e].tmpl) = "Step" =>
            /\ Len(world[e].children) <= 1
            /\ world[e].active_step < Len(Actions(world[e].tmpl))
            /\ world[e].children # <<>> =>
                  /\ world[world[e].children[1]].alive
                  /\ world[world[e].children[1]].tmpl =
                         Actions(world[e].tmpl)[world[e].active_step + 1]

C17_Witness ==
    /\ last.op = "sequence"
    /\ \E e \in Alive(world) :
          /\ Mode(world[e].tmpl) = "Step"
          /\ world[e].active_step = 1
          /\ Len(world[e].children) = 1
          /\ world[world[e].children[1]].tmpl = Actions(world[e].tmpl)[2]
          /\ Fresh(world[e].children[1])

\* C18: a pass over a Cancelled Step whose step is Executing sets the step
\* to Cancelled and leaves the Step Cancelled; if the step is Success (or
\* Failure) the Step becomes Success (or Failure) in that pass; if the step
\* is Cancelled nothing changes. The step is not despawned.
C18_StepCancelled ==
    last.op = "sequence" =>
        \A e \in CompositesBefore("Step", "Cancelled") :
            LET s == world[After(e)]
                c == world[After(ActiveOf(e))]
            IN /\ After(e) # 0 /\ After(ActiveOf(e)) # 0
               /\ s.children = ChildrenAfter(e)
               /\ s.active_step = last.prev[e].active_step
               /\ CASE ActiveState(e) = "Executing" ->
                          s.state = "Cancelled" /\ c.state = "Cancelled"
                    [] ActiveState(e) = "Cancelled" ->
                          s.state = "Cancelled" /\ c.state = "Cancelled"
                    [] OTHER ->
                          s.state = ActiveState(e) /\ c.state = ActiveState(e)

C18_Witness ==
    /\ last.op = "sequence"
    /\ \E e \in CompositesBefore("Step", "Cancelled") :
          /\ ActiveState(e) = "Executing"
          /\ world[After(e)].state = "Cancelled"
          /\ world[After(ActiveOf(e))].state = "Cancelled"

\* C19: no pass of the Thinker or of the Join/Race/Step combinators changes
\* the state of an action that is Success or Failure, or moves a Cancelled
\* action back to Executing; nor does a Thinker pass do so to the Thinker's
\* own state.
C19_LifecycleMonotonic ==
    /\ last.op \in {"thinker", "sequence"} => ~last.regressed
    /\ Ticked =>
          /\ last.state \in Terminal => state = last.state
          /\ last.state = "Cancelled" => state # "Executing"

C19_Witness ==
    /\ last.op = "sequence"
    /\ ~last.regressed
    /\ \E e \in CompositesBefore("Join", "Executing") :
          /\ ChildBefore(e, 1) = "Failure"
          /\ ChildBefore(e, 2) = "Executing"
          /\ ChildAfter(e, 1) = "Failure"
          /\ ChildAfter(e, 2) = "Cancelled"
          /\ world[e].state = "Failure"

\* the indices of the choices whose score reaches the threshold
Reaching == {i \in DOMAIN choices : last.scores[i] >= picker.threshold}

Greatest ==
    {i \in DOMAIN choices :
        /\ last.scores[i] > 0
        /\ \A j \in DOMAIN choices : last.scores[j] <= last.scores[i]}

\* C21: Highest returns the action template of the choice with the greatest
\* score among those > 0, the lowest index among equal maxima, and none when
\* no score is > 0; scores [2, 4, 4] give the second choice, not the third.
C21_Highest ==
    (last.op = "pick" /\ picker.kind = "Highest") =>
        /\ last.picked = IF Greatest = {} THEN None ELSE choices[MinOf(Greatest)]
        /\ last.scores = <<2, 4, 4>> => last.picked = choices[2]

C21_Witness ==
    /\ last.op = "pick"
    /\ picker = Highest
    /\ last.scores = <<2, 4, 4>>
    /\ last.picked = choices[2]

\* C22: whatever composite scorer evaluates, over children in [0, 1], with
\* any threshold and any weights, the score it writes is in [0, 1] and the
\* checked setter does not panic.
C22_ScoreBound ==
    last.op = "score" =>
        /\ ~last.panicked
        /\ last.score # NaN
        /\ 0 <= last.score /\ last.score <= ScoreUnit

C22_Witness ==
    /\ last.op = "score"
    /\ last.scorer.kind = "weighted_measure"
    /\ last.scorer.weights = <<MaxWeight, 0 - MaxWeight>>
    /\ last.scores = <<ScoreUnit, ScoreUnit>>
    /\ ~last.panicked
    /\ last.score = 0

\* C23: within a frame every composite scorer is evaluated after its
\* children, at every depth, and the picker runs after every scorer: the
\* value the Thinker arbitrates on is made of this frame's values only.
C23_EvaluationOrder ==
    /\ \A n \in {"inner", "outer"} :
          KindOf(last.frame, n) \in last.frame.ran => last.frame.fresh[n]
    /\ last.op = "arbitrate" =>
          /\ last.frame.fresh["outer"]
          /\ last.picked = IF last.frame.fixed > 0 THEN "A" ELSE None

\* the agent is gone or has no ThinkerBuilder
Orphaned == ~(agent.alive /\ agent.builder)

\* no Thinker, scorer or action entity is alive
NoNodes == agent.thinkers = 0 /\ agent.scorers = 0 /\ Alive(world) = {}

C30_OneThinkerPerAgent ==
    /\ agent.thinkers <= 1
    /\ (last.op = "attach" /\ agent.alive /\ agent.builder) => agent.thinkers = 1
    /\ (last.op = "detach" /\ agent.alive /\ ~agent.builder) =>
          agent.thinkers = 0 /\ agent.scorers = 0 /\ ~agent.has_thinker

\* the attach pass spawned the Thinker
ThinkerCreated == last.op = "attach" /\ last.state = None /\ agent.thinkers > 0

\* C25: every action node is Executing when it is created: the action a
\* Thinker pass puts in the slot, each child spawned with it, and a Thinker.
C25_CreatedExecuting ==
    /\ (Ticked /\ Spawned) =>
          \A e \in Subtree(world, current_action.action) : world[e].state = "Executing"
    /\ ThinkerCreated => state = "Executing"

\* C26: composites nest: a pass over a Join, Race or Step whose child is a
\* Join, Race or Step reads and aggregates that child's state as it does a
\* leaf's, without a fatal lookup error.
C26_CompositesNest ==
    last.op = "sequence" => ~last.panicked

\* the children of a composite of last.prev that were Cancelled
CancelledChildren(e) == {k \in ChildrenOf(e) : ChildBefore(e, k) = "Cancelled"}

\* C27: cancellation has no timeout.  A pass over a Cancelled Join, Race or
\* Step with a child that is Cancelled leaves the composite Cancelled and
\* the child as it is; a Thinker pass that finds the action in its slot
\* Cancelled keeps that action in the slot, instantiates nothing, and a
\* Cancelled Thinker stays Cancelled.  So as long as the child stays
\* Cancelled nothing above it becomes Success or Failure or is replaced.
C27_NoTimeout ==
    /\ last.op = "sequence" =>
          \A mode \in {"Join", "Race", "Step"} :
             \A e \in CompositesBefore(mode, "Cancelled") :
                \A k \in CancelledChildren(e) :
                   /\ After(e) # 0
                   /\ world[After(e)].state = "Cancelled"
                   /\ After(last.prev[e].children[k]) # 0
                   /\ world[After(last.prev[e].children[k])].state = "Cancelled"
    /\ (Ticked /\ last.before_state = "Cancelled") =>
          /\ SameInstance
          /\ SlotState = "Cancelled"
          /\ last.state = "Cancelled" => state = "Cancelled"

C27_Witness ==
    /\ last.op = "sequence"
    /\ \E e \in CompositesBefore("Race", "Cancelled") :
          /\ ChildBefore(e, 1) = "Cancelled"
          /\ ChildBefore(e, 2) = "Failure"
          /\ world[After(e)].state = "Cancelled"

\* C28: a pass of an Executing Thinker that finds the action in its slot
\* Success or Failure leaves the slot without that action; when nothing is
\* picked, nothing is scheduled and there is no default, the action is
\* despawned and the slot is empty.
C28_TerminalCleanup ==
    (TickedExecuting /\ last.before_state \in Terminal) =>
        /\ ~SameInstance
        /\ (last.picked = None /\ last.queue = <<>> /\ otherwise = None) =>
              Destroyed /\ current_action = NoAction

C28_Witness ==
    /\ TickedExecuting
    /\ last.before_state = "Success"
    /\ last.picked = None /\ last.queue = <<>> /\ otherwise = None
    /\ Destroyed
    /\ current_action = NoAction

\* C29: the schedule queue is FIFO and one-shot.  A step leaves the queue
\* as it is, or is a schedule_action call that puts its template at the
\* back, or takes the template at the front away and instantiates it in
\* the slot; so templates are instantiated in the order of the calls, each
\* once, and leave the queue only when instantiated.
C29_FifoOneShot ==
    [][\/ scheduled_actions' = scheduled_actions
       \/ /\ last'.op = "schedule"
          /\ \E action \in QueueTemplates :
                scheduled_actions' = Append(scheduled_actions, action)
       \/ /\ last'.op = "thinker"
          /\ scheduled_actions # <<>>
          /\ scheduled_actions' = Tail(scheduled_actions)
          /\ current_action' # NoAction
          /\ current_action'.tmpl = Head(scheduled_actions)
          /\ current_action'.action # last'.before
          /\ world'[current_action'.action].state = "Executing"]_vars

C29_Witness ==
    /\ Ticked
    /\ last.queue = <<"Q", "P">>
    /\ scheduled_actions = <<"P">>
    /\ Spawned
    /\ current_action.tmpl = "Q"

\* C31: AllOrNothing writes the sum of its children's scores, clamped to
\* 1, when every child is at or above the threshold, and 0 when some child
\* is below it, wherever that child stands among the others.
C31_AllOrNothing ==
    (last.op = "score" /\ last.scorer.kind = "AllOrNothing") =>
        LET threshold == last.scorer.threshold
            sum == SumOf(last.scores, 1)
        IN /\ (\A i \in DOMAIN last.scores : fge(last.scores[i], threshold)) =>
                 last.score = IF sum > ScoreUnit THEN ScoreUnit ELSE sum
           /\ (\E i \in DOMAIN last.scores : flt(last.scores[i], threshold)) =>
                 last.score = 0

C31_Witness ==
    /\ last.op = "score" /\ last.scorer.kind = "AllOrNothing"
    /\ last.scorer.threshold = ScoreUnit \div 2
    /\ last.scores = <<0, ScoreUnit>>
    /\ last.score = 0

\* a value of the range 0.0..=1.0
InRange(v) == v # NaN /\ 0 <= v /\ v <= ScoreUnit

\* C32: Score::set with a value outside [0, 1] panics and leaves the Score
\* as it was; with a value inside it stores that value; set_unchecked
\* stores any value.
C32_CheckedSet ==
    /\ last.op = "set" =>
          IF InRange(last.scores[1])
          THEN ~last.panicked /\ last.score = last.scores[1]
          ELSE last.panicked /\ last.score = last.scores[2]
    /\ last.op = "set_unchecked" =>
          ~last.panicked /\ last.score = last.scores[1]

C32_Witness ==
    /\ last.op = "set"
    /\ last.scores = <<ScoreUnit + 1, ScoreUnit \div 2>>
    /\ last.panicked
    /\ last.score = ScoreUnit \div 2

\* the composite of last.prev was Executing and the pass made it `outcome`
Decided(e, outcome) == After(e) # 0 /\ world[After(e)].state = outcome

\* every child that was Executing is Cancelled, and none is Executing
NoneLeftExecuting(e) ==
    \A k \in ChildrenOf(e) :
        LET c == After(last.prev[e].children[k])
        IN /\ c # 0
           /\ world[c].state # "Executing"
           /\ ChildBefore(e, k) = "Executing" => world[c].state = "Cancelled"

\* C33: the pass in which an Executing Join becomes Failure, or an
\* Executing Race becomes Success, sets every child that was Executing to
\* Cancelled, before and after the deciding child alike.
C33_DecisionCancelsAll ==
    last.op = "sequence" =>
        /\ \A e \in CompositesBefore("Join", "Executing") :
              Decided(e, "Failure") => NoneLeftExecuting(e)
        /\ \A e \in CompositesBefore("Race", "Executing") :
              Decided(e, "Success") => NoneLeftExecuting(e)

C33_Witness ==
    /\ last.op = "sequence"
    /\ \E e \in CompositesBefore("Join", "Executing") :
          /\ ChildBefore(e, 1) = "Failure"
          /\ ChildBefore(e, 2) = "Executing"
          /\ Decided(e, "Failure")
          /\ world[After(last.prev[e].children[2])].state = "Cancelled"

\* the Steps alive when the last sequence pass began, and alive after it
StepsBefore ==
    {e \in Alive(last.prev) : Mode(last.prev[e].tmpl) = "Step" /\ After(e) # 0}

\* the pass found the Step Executing, its active child Success, not the last
Advancing(e) ==
    /\ last.prev[e].state = "Executing"
    /\ last.prev[e].children # <<>>
    /\ ActiveState(e) = "Success"
    /\ last.prev[e].active_step < Len(StepsOf(e)) - 1

\* C34: a Step's active_step stays within 0..len(steps)-1, never
\* decreases, and grows, by one, exactly in a pass that finds the Step
\* Executing with its active child Success and not the last; that child is
\* despawned in the same pass, so it causes one advance only.
C34_StepIndex ==
    /\ \A e \in Alive(world) :
          Mode(world[e].tmpl) = "Step" =>
             /\ 0 <= world[e].active_step
             /\ world[e].active_step <= Len(Actions(world[e].tmpl)) - 1
    /\ (Ticked /\ Spawned) => world[current_action.action].active_step = 0
    /\ last.op = "sequence" =>
          \A e \in StepsBefore :
             LET a == last.prev[e].active_step
                 b == world[After(e)].active_step
             IN /\ b = IF Advancing(e) THEN a + 1 ELSE a
                /\ Advancing(e) => After(ActiveOf(e)) = 0

C34_Witness ==
    /\ last.op = "sequence"
    /\ \E e \in StepsBefore :
          /\ Advancing(e)
          /\ last.prev[e].active_step = 1
          /\ world[After(e)].active_step = 2
          /\ After(ActiveOf(e)) = 0

\* the Steps that were not Executing when the last sequence pass began
StoppedSteps == {e \in StepsBefore : last.prev[e].state # "Executing"}

\* C35: a Step that is Cancelled, or terminal after it, gets no further
\* child and keeps its active_step; a Cancelled Step whose active child is
\* Success becomes Success, steps left to run or not.
C35_CancelledStepStops ==
    last.op = "sequence" =>
        \A e \in StoppedSteps :
            /\ world[After(e)].children = ChildrenAfter(e)
            /\ \A k \in ChildrenOf(e) : After(last.prev[e].children[k]) # 0
            /\ world[After(e)].active_step = last.prev[e].active_step
            /\ (last.prev[e].state = "Cancelled" /\ last.prev[e].children # <<>>
                  /\ ActiveState(e) = "Success") => world[After(e)].state = "Success"

C35_Witness ==
    /\ last.op = "sequence"
    /\ \E e \in StoppedSteps :
          /\ last.prev[e].state = "Cancelled"
          /\ ActiveState(e) = "Success"
          /\ last.prev[e].active_step = 0
          /\ world[After(e)].state = "Success"
          /\ world[After(e)].children = ChildrenAfter(e)

\* C36: a pass of an Executing Thinker whose picker returns the template of
\* the action in the slot while that action is Cancelled leaves the same
\* instance in the slot, still Cancelled; a pass that picks a template while
\* the action in the slot is Success or Failure destroys that action and
\* puts a new Executing instance of the picked template in the slot, the
\* template of the destroyed action included.
C36_CancelNotRetracted ==
    (TickedExecuting /\ last.picked # None) =>
        /\ (last.before_state = "Cancelled" /\ last.picked = last.before_tmpl) =>
              /\ Untouched
              /\ current_action.tmpl = last.before_tmpl
        /\ (last.before_tmpl # None /\ last.before_state \in Terminal) =>
              /\ Destroyed
              /\ Spawned
              /\ current_action.tmpl = last.picked
              /\ SlotState = "Executing"

C36_Witness ==
    /\ TickedExecuting
    /\ last.before_state = "Cancelled"
    /\ last.picked = last.before_tmpl
    /\ SameInstance
    /\ SlotState = "Cancelled"

\* the second case of C36: the finished instance is replaced by a new
\* instance of its own template
C36_Reinstantiated ==
    /\ TickedExecuting
    /\ last.before_state \in Terminal
    /\ last.picked = last.before_tmpl
    /\ Destroyed
    /\ Spawned
    /\ current_action.tmpl = last.before_tmpl

\* the number of live entities of a world
LiveCount(w) == Cardinality(Alive(w))

\* C37: a pass over a Thinker that is Success or Failure changes nothing:
\* the Thinker's state, its slot, its schedule queue and every action stay
\* as they were, whatever the picker would return.  A pass over a Cancelled
\* Thinker leaves the queue as it is and creates no entity; it sets an
\* action that is still running to Cancelled, leaves a Cancelled one alone,
\* destroys a finished one and empties the slot, and with an empty slot
\* only moves the Thinker to Success.
C37_StoppedThinkerStartsNothing ==
    [][last'.op = "thinker" =>
          /\ state \in Terminal =>
                UNCHANGED <<state, current_action, scheduled_actions, world>>
          /\ state = "Cancelled" =>
                /\ scheduled_actions' = scheduled_actions
                /\ LiveCount(world') <= LiveCount(world)
                /\ CASE current_action = NoAction ->
                           /\ state' = "Success"
                           /\ UNCHANGED <<current_action, world>>
                     [] StateOf(world, current_action) \in NonTerminal ->
                           /\ UNCHANGED <<state, current_action>>
                           /\ StateOf(world', current_action') = "Cancelled"
                           /\ LiveCount(world') = LiveCount(world)
                     [] OTHER ->
                           /\ UNCHANGED state
                           /\ current_action' = NoAction
                           /\ LiveCount(world') < LiveCount(world)]_vars

C37_Witness ==
    /\ Ticked
    /\ last.state = "Cancelled"
    /\ last.picked # None
    /\ last.queue # <<>>
    /\ last.before_state \in Terminal
    /\ Destroyed
    /\ current_action = NoAction
    /\ scheduled_actions = last.queue

\* the first case of C37: a pass over a Thinker that is Success
C37_Inert ==
    /\ Ticked
    /\ last.state = "Success"
    /\ last.picked # None
    /\ last.queue # <<>>
    /\ current_action = NoAction
    /\ scheduled_actions = last.queue

\* the places in the query of the Thinkers the last run processed
Processed == last.iterations.first..last.iterations.stop

\* C38: with the Thinkers of the world fixed, a run of thinker_system that
\* returns before the end of the query does so when the Thinkers processed
\* since the index was 0 number a multiple of 500; a run starts at the
\* first Thinker not yet processed since then and processes none that was;
\* the index is 0 after a run exactly when the run reached the end of the
\* query, and by then every Thinker was processed once since the index
\* was 0.
C38_RoundRobin ==
    last.op = "run" =>
        LET it == last.iterations
            round == it.before \cup Processed
        IN /\ it.early =>
                 /\ Processed # {}
                 /\ Cardinality(round) % 500 = 0
                 /\ it.index = Cardinality(round)
           /\ it.before = 1..(it.first - 1)
           /\ Processed \cap it.before = {}
           /\ it.index = 0 <=> ~it.early
           /\ ~it.early => it.stop = agent.thinkers /\ round = 1..agent.thinkers
           /\ it.seen = 1..it.index

C38_Witness ==
    /\ last.op = "run"
    /\ agent.thinkers = 2 * BatchSize + 1
    /\ last.iterations.before = 1..BatchSize
    /\ last.iterations.first = BatchSize + 1
    /\ last.iterations.stop = 2 * BatchSize
    /\ last.iterations.early
    /\ last.iterations.index = 2 * BatchSize

\* a run that starts in the middle of the query and reaches its end
C38_RoundEnds ==
    /\ last.op = "run"
    /\ agent.thinkers = 2 * BatchSize + 1
    /\ last.iterations.before = 1..(2 * BatchSize)
    /\ Processed = {2 * BatchSize + 1}
    /\ last.iterations.index = 0

\* the action in the slot is Cancelled
SlotCancelled == current_action # NoAction /\ SlotState = "Cancelled"

\* the slot holds an instance of the second choice
HoldsB == current_action # NoAction /\ current_action.tmpl = "B"

\* C39: for a Thinker that is not cancelled: if from some pass on the picker
\* returns the same template on every pass, and the action in the slot never
\* stays Cancelled for ever, then from some point on the slot holds an
\* instance of that template.
C39_SwitchHappens ==
    (/\ <>[][last'.op = "thinker" => last'.picked = "B"]_vars
     /\ SlotCancelled ~> ~SlotCancelled)
        => <>[]HoldsB

C39_Witness ==
    /\ TickedExecuting
    /\ last.picked = "B"
    /\ last.before_tmpl = "J2"
    /\ last.before_state \in Terminal
    /\ Destroyed
    /\ Spawned
    /\ HoldsB

====
